---- MODULE Spec2Model ----
(***************************************************************************)
(* Model of the agent supervision and coordination engine of crafter-code  *)
(* (apps/desktop/src-tauri/src).  One group of variables per component;    *)
(* each component has its own specification, which leaves the other        *)
(* components' variables unchanged.                                        *)
(*                                                                         *)
(*   SpecTasks  Task Store              tasks/task.rs, acp/swarm.rs        *)
(*   SpecTerm   terminal requests       acp/client.rs, acp/swarm.rs        *)
(*   SpecSup    worker supervisor       acp/commands.rs, orchestrator      *)
(*   SpecPerm   permission requests     acp/client.rs                      *)
(***************************************************************************)
EXTENDS Integers, Sequences, FiniteSets, TLC

\* ------------------------------------------------------------------ bounds
\* Number of tasks one store may create; also the task ids an update may
\* name in add_blocked_by / add_blocks (a named id need not exist yet).
MaxTasks == 2
\* Number of child processes one connection may spawn.
MaxTerminals == 2
\* Number of commands posted to one mailbox.
MaxCommands == 3
\* Number of request_permission calls.
MaxRequests == 2
MaxMessages == 2
MaxClock == 1
MaxStories == 3
MaxDependencies == 2
MaxIterations == 2
MaxOps == 2
MaxSubtasks == 2
MaxOrchWorkers == 3
MaxFileLen == 5
MaxLineArg == 4
MaxChunks == 1
MaxTime == 2
MaxCalls == 2
MaxReconnects == 2

\* ------------------------------------------------------------- vocabulary
None == "none"
NoId == 0
HostError == -32000
Workers == {"w1", "w2"}
TaskIds == 1..MaxTasks

VARIABLES
  tasks,        \* TaskManager.tasks: id -> Task (HashMap<String, Task>)
  next_id,      \* TaskManager.next_id
  lastTaskOp,   \* the last Task Store call and what it returned
  terminals,    \* CrafterClient.terminals: pid -> child process
  next_pid,     \* the lowest pid the OS has not given to a child yet
  free_pids,    \* pids of reaped children whose terminal is gone
  released,     \* the terminal ids release_terminal has removed
  coordination, \* the connection holds a TaskManager and an InboxManager
  lastTerm,     \* the last terminal request and how it was answered
  term_call,    \* the terminal request that has not returned yet
  mode,         \* how the supervisor was started
  agent,        \* the AgentConfig the supervisor was started with
  wire,         \* the requests sent to the agent, oldest first
  conn,         \* AcpClient: auth methods, capabilities, session
  worker_error, \* WorkerSession.error
  failedEvents, \* errors of the worker-status-change failed events emitted
  pc,           \* where the supervisor is in its function
  mailbox,      \* commands queued in the mpsc channel
  mailboxOpen,  \* a sender of the mailbox still exists
  next_cmd,     \* id of the next command enqueued
  serving,      \* the command the supervisor is servicing
  requests,     \* ids of the commands whose request awaits its response
  answer,       \* the agent's answer to the request in flight, once arrived
  cancel_tx,    \* active_workers holds the worker's cancel sender
  cancel_rx,    \* the cancel receiver the prompt selects on
  process,      \* the agent subprocess
  killed,       \* a kill of the subprocess has been attempted
  status,       \* WorkerStatus of the worker
  session_status, \* SessionStatus of the worker's orchestrator session
  started,      \* ids of the mailbox commands, in the order serviced
  replied,      \* ids of the mailbox commands whose reply was sent
  accepted,     \* cancel_worker calls that returned Ok
  acpCancels,   \* ACP cancel notifications sent on the connection
  cancelledEvents, \* worker-status-change events with status cancelled
  done_rx,      \* the oneshot reply channel of each mailbox command
  enqueuing,    \* prompt commands that reported running, not yet sent
  prompt_content, \* content blocks of the last prompt request sent
  permRequests, \* the request_permission calls: id -> call
  channels,     \* PERMISSION_CHANNELS: worker -> the call whose sender it holds
  next_req,     \* id of the next request_permission call
  lastRespond,  \* what send_permission_response returned, when it ran last
  inboxes,      \* InboxManager.inboxes: worker id -> Vec<Message>
  inbox_workers, \* InboxManager.workers
  next_msg,     \* stands for the fresh uuid of the next message
  clock,        \* chrono::Utc::now() in milliseconds
  lastInbox,    \* the last inbox call and the messages it returned
  inbox_calls,  \* the broadcast and broadcast_to calls between their sends
  prd,          \* the Prd handed to validate_prd
  validation,   \* the ValidationResult it returned
  prd_session,  \* PrdManager.sessions: the one PrdSession
  ralph,        \* the run_ralph_loop tasks: spawned, and looping
  wloop,        \* the run_worker_loop of each pool worker
  cancel_channels, \* PrdManager.cancel_channels, with the receiver's state
  ops,          \* operator commands that have returned
  lastCall,     \* the last operator command that returned, and whether Ok
  cancelling,   \* cancel_session calls between their two lock sections
  retrying,     \* retry_prd_story calls between retry_story and get_session
  orch,         \* OrchestratorManager.sessions: the one session, once created
  creating,     \* position of the command that creates the session
  exec,         \* the execute_worker task of each worker of the session
  active_workers, \* OrchestratorManager.active_workers: the keys
  cancel_sent,  \* workers whose cancel channel holds a message
  file,         \* the content of the file read_text_file is asked for
  lastRead,     \* the last read_text_file request and its response
  swarm_line,   \* the command line handed to the swarm parser
  swarm_cmd,    \* what is_swarm_command and parse_swarm_command returned
  session_files, \* ~/.crafter-code/sessions: session id -> the file's content
  wall_clock,   \* chrono::Utc::now().timestamp(), in seconds
  lastSave,     \* the last persistence command
  reconnects,   \* the reconnect_worker calls and where each one stands
  displaced,    \* the supervisors whose thread is not the one that runs next
  owner,        \* the reconnect_worker call that started the supervisor
  orphans,      \* pids of running terminal children whose Child was dropped
  client_dropped \* the CrafterClient of the connection has been dropped

taskVars == <<tasks, next_id, lastTaskOp>>
termVars ==
  <<terminals, next_pid, free_pids, released, coordination, lastTerm,
    term_call>>
supVars ==
  <<mode, pc, mailbox, mailboxOpen, next_cmd, serving, requests, answer,
    cancel_tx, cancel_rx, process, killed, status, started, replied,
    accepted, acpCancels, cancelledEvents, agent, wire, conn, worker_error,
    failedEvents, done_rx, prompt_content, session_status, enqueuing>>
permVars == <<permRequests, channels, next_req, lastRespond>>
inboxVars ==
  <<inboxes, inbox_workers, next_msg, clock, lastInbox, inbox_calls>>
parserVars == <<prd, validation>>
driverVars ==
  <<prd_session, ralph, wloop, cancel_channels, ops, lastCall, cancelling,
    retrying>>
orchVars == <<orch, creating, exec, active_workers, cancel_sent>>
fsVars == <<file, lastRead>>
swarmVars == <<swarm_line, swarm_cmd>>
storeVars == <<session_files, wall_clock, lastSave>>
reconnectVars == <<reconnects, displaced, owner>>
osVars == <<orphans, client_dropped>>
vars == <<taskVars, termVars, supVars, permVars, inboxVars, parserVars,
          driverVars, orchVars, fsVars, swarmVars, storeVars, reconnectVars,
          osVars>>

\* What a step of one component leaves alone.
TaskFrame ==
  UNCHANGED <<termVars, supVars, permVars, inboxVars, parserVars, driverVars,
              orchVars,
              fsVars, swarmVars, storeVars, reconnectVars, osVars>>
TermFrame ==
  UNCHANGED <<supVars, permVars, parserVars, driverVars, orchVars,
              fsVars, swarmVars, storeVars, reconnectVars>>
SupFrame ==
  UNCHANGED <<taskVars, termVars, permVars, inboxVars, parserVars,
              driverVars, orchVars,
              fsVars, swarmVars, storeVars, reconnectVars, osVars>>
\* A supervisor step that registers the worker with the InboxManager.
SupInboxFrame ==
  UNCHANGED <<taskVars, termVars, permVars, parserVars, driverVars, orchVars,
              fsVars, swarmVars, storeVars, reconnectVars, osVars>>
\* A supervisor step that makes or drops the AcpClient.
ClientFrame ==
  UNCHANGED <<taskVars, permVars, inboxVars, parserVars, driverVars,
              orchVars, fsVars, swarmVars, storeVars, reconnectVars,
              next_pid, released, coordination, lastTerm, term_call>>
PermFrame ==
  UNCHANGED <<taskVars, termVars, supVars, inboxVars, parserVars, driverVars,
              orchVars,
              fsVars, swarmVars, storeVars, reconnectVars, osVars>>
InboxFrame ==
  UNCHANGED <<taskVars, termVars, supVars, permVars, parserVars, driverVars,
              orchVars,
              fsVars, swarmVars, storeVars, reconnectVars, osVars>>
ParserFrame ==
  UNCHANGED <<taskVars, termVars, supVars, permVars, inboxVars, driverVars,
              orchVars,
              fsVars, swarmVars, storeVars, reconnectVars, osVars>>
DriverFrame ==
  UNCHANGED <<taskVars, termVars, supVars, permVars, inboxVars, parserVars,
              orchVars,
              fsVars, swarmVars, storeVars, reconnectVars, osVars>>
OrchFrame ==
  UNCHANGED <<taskVars, termVars, supVars, permVars, inboxVars, parserVars,
              driverVars, fsVars, swarmVars, storeVars, reconnectVars, osVars>>
FsFrame ==
  UNCHANGED <<taskVars, termVars, supVars, permVars, inboxVars, parserVars,
              driverVars, orchVars, swarmVars, storeVars, reconnectVars, osVars>>
SwarmFrame ==
  UNCHANGED <<taskVars, termVars, supVars, permVars, inboxVars, parserVars,
              driverVars, orchVars, fsVars, storeVars, reconnectVars, osVars>>

StoreFrame ==
  UNCHANGED <<taskVars, termVars, supVars, permVars, inboxVars, parserVars,
              driverVars, orchVars, fsVars, swarmVars, reconnectVars, osVars>>

ReconnectFrame ==
  UNCHANGED <<taskVars, termVars, permVars, inboxVars, parserVars,
              driverVars, orchVars, fsVars, swarmVars, storeVars, osVars>>
\* A step that puts another supervisor, with its client, in the place of
\* the one that runs next.
ReconnectClientFrame ==
  UNCHANGED <<taskVars, termVars, permVars, inboxVars, parserVars,
              driverVars, orchVars, fsVars, swarmVars, storeVars, orphans>>

\* A terminal step that neither drops a Child nor the client.
OsFrame == UNCHANGED osVars

\* A terminal step that does not reach the InboxManager.
NoInboxCall == UNCHANGED inboxVars

\* ================================================================= strings
\* A Rust string is modelled as the sequence of its characters, so that
\* trimming, prefix tests and tokenising are computed as the code computes
\* them.  The alphabet is lower-case letters, digits, "T", space and the two
\* quote characters.

\* char::is_whitespace, on this alphabet.
IsWhitespace(c) == c = " "

RECURSIVE TrimStart(_)
TrimStart(s) ==
  IF s # <<>> /\ IsWhitespace(Head(s)) THEN TrimStart(Tail(s)) ELSE s

RECURSIVE TrimEnd(_)
TrimEnd(s) ==
  IF s # <<>> /\ IsWhitespace(s[Len(s)])
    THEN TrimEnd(SubSeq(s, 1, Len(s) - 1)) ELSE s

\* str::trim
Trim(s) == TrimEnd(TrimStart(s))

\* str::starts_with
StartsWith(s, p) == Len(s) >= Len(p) /\ SubSeq(s, 1, Len(p)) = p

\* [String]::join(sep)
RECURSIVE Join(_, _)
Join(list, sep) ==
  IF list = <<>> THEN <<>>
  ELSE IF Len(list) = 1 THEN list[1]
  ELSE list[1] \o sep \o Join(Tail(list), sep)

\* str::to_lowercase, on this alphabet.
LowerChar(c) == IF c = "T" THEN "t" ELSE c
ToLowercase(s) == [i \in 1..Len(s) |-> LowerChar(s[i])]

\* u64::to_string for the ids the model creates (one digit).
DigitChar == <<"1", "2", "3", "4", "5", "6", "7", "8", "9">>
IdString(n) == <<DigitChar[n]>>

\* The key a string names in the task map: the id whose decimal string it
\* is, NoId when it is the string of no id.
IdOfString(s) ==
  IF \E n \in 1..9 : s = IdString(n)
    THEN CHOOSE n \in 1..9 : s = IdString(n)
    ELSE NoId

\* "swarm " (with the trailing space)
SwarmPrefix == <<"s", "w", "a", "r", "m", " ">>

\* ============================================================== Task Store
\* TaskStatus, tasks/task.rs
TaskStatus == {"pending", "in_progress", "completed", "deleted"}

\* The id lists a patch may carry in add_blocked_by / add_blocks: empty or
\* one id (a longer list is handled one element at a time by the same loop).
AddLinks == {x \in SUBSET TaskIds : Cardinality(x) <= 1}

\* The owner a patch may carry: none (leave the owner alone) or a worker id.
PatchOwners == {None, "w1"}

\* The fields of TaskUpdate that change links, status or owner.  The text
\* fields and metadata touch nothing else and are left out.  One update of
\* the model adds links in one direction.
TaskUpdate ==
  {u \in [status : TaskStatus \cup {None},
          owner : PatchOwners,
          add_blocked_by : AddLinks,
          add_blocks : AddLinks] :
     u.add_blocked_by = {} \/ u.add_blocks = {}}

\* `swarm task update <id> <status-word>`: the status word parsed by
\* execute_task_command (lower-cased first); any other word is an error and
\* no update is made.
ParseStatusWord(word) ==
  LET w == ToLowercase(word)
  IN CASE w = <<"p", "e", "n", "d", "i", "n", "g">> -> "pending"
       [] w = <<"i", "n", "_", "p", "r", "o", "g", "r", "e", "s", "s">> -> "in_progress"
       [] w = <<"i", "n", "p", "r", "o", "g", "r", "e", "s", "s">> -> "in_progress"
       [] w = <<"c", "o", "m", "p", "l", "e", "t", "e", "d">> -> "completed"
       [] w = <<"d", "o", "n", "e">> -> "completed"
       [] w = <<"d", "e", "l", "e", "t", "e", "d">> -> "deleted"
       [] OTHER -> None

\* The status words an agent may type: the six the parser knows and one it
\* does not ("bogus").
StatusWords ==
  {<<"p", "e", "n", "d", "i", "n", "g">>,
   <<"i", "n", "_", "p", "r", "o", "g", "r", "e", "s", "s">>,
   <<"i", "n", "p", "r", "o", "g", "r", "e", "s", "s">>,
   <<"c", "o", "m", "p", "l", "e", "t", "e", "d">>,
   <<"d", "o", "n", "e">>,
   <<"d", "e", "l", "e", "t", "e", "d">>,
   <<"b", "o", "g", "u", "s">>}

\* The task built by TaskManager::create.
NewTask ==
  [status |-> "pending", owner |-> None, blocked_by |-> {}, blocks |-> {}]

\* An update whose patch always replaces the owner, None included.
UpdateClearingOwner(t, u) ==
  [status |-> IF u.status # None THEN u.status ELSE t.status,
   owner |-> u.owner,
   blocked_by |-> t.blocked_by \cup u.add_blocked_by,
   blocks |-> t.blocks \cup u.add_blocks]

\* TaskManager::update, the block that mutates the main task.
UpdateMainTask(t, u) ==
  [status |-> IF u.status # None THEN u.status ELSE t.status,
   owner |-> IF u.owner # None THEN u.owner ELSE t.owner,
   blocked_by |-> t.blocked_by \cup u.add_blocked_by,
   blocks |-> t.blocks \cup u.add_blocks]

\* unblock_tasks: the main task's blocks, cloned while the status is handled
\* (before add_blocks is applied), when the task moves to completed.
UnblockTasks(t, u) ==
  IF u.status = "completed" /\ t.status # "completed" THEN t.blocks ELSE {}

\* add_blocks_to: the blockers newly pushed onto the main task's blocked_by.
AddBlocksTo(t, u) == u.add_blocked_by \ t.blocked_by

\* add_blocked_by_to: the ids newly pushed onto the main task's blocks.
AddBlockedByTo(t, u) == u.add_blocks \ t.blocks

\* The three deferred loops of TaskManager::update, in the code's order.
\* A target that is not in the store is skipped.
ApplyUnblock(s, id, targets) ==
  [k \in DOMAIN s |->
     IF k \in targets THEN [s[k] EXCEPT !.blocked_by = @ \ {id}] ELSE s[k]]

ApplyAddBlocks(s, id, targets) ==
  [k \in DOMAIN s |->
     IF k \in targets THEN [s[k] EXCEPT !.blocks = @ \cup {id}] ELSE s[k]]

ApplyAddBlockedBy(s, id, targets) ==
  [k \in DOMAIN s |->
     IF k \in targets THEN [s[k] EXCEPT !.blocked_by = @ \cup {id}] ELSE s[k]]

\* TaskManager::update on a task that exists: the store afterwards.
UpdateStore(s, id, u) ==
  LET t == s[id]
      s1 == [s EXCEPT ![id] = UpdateMainTask(t, u)]
      s2 == ApplyUnblock(s1, id, UnblockTasks(t, u))
      s3 == ApplyAddBlocks(s2, id, AddBlocksTo(t, u))
  IN ApplyAddBlockedBy(s3, id, AddBlockedByTo(t, u))

\* claim_available with the blocked_by test forgotten.
ClaimableIgnoringBlockers(t) ==
  t.status = "pending" /\ t.owner = None

\* The predicate of claim_available's find.
Claimable(t) ==
  t.status = "pending" /\ t.owner = None /\ t.blocked_by = {}

\* What the last TaskManager call did, as its caller can observe it:
\*   op         the method called (delete and the swarm update call update)
\*   worker     claim_available's worker_id
\*   claimed    the id of the task claim_available returned (NoId: None)
\*   completed  the id of the task that update moved from a status other
\*              than completed to completed (NoId: no such move)
TaskOp(op, worker, claimed, completed) ==
  [op |-> op, worker |-> worker, claimed |-> claimed, completed |-> completed]

\* The id an update of `id` with patch u completes, if any.
Completes(s, id, u) ==
  IF id \in DOMAIN s /\ u.status = "completed" /\ s[id].status # "completed"
    THEN id ELSE NoId

TaskInit ==
  /\ tasks = <<>>
  /\ next_id = 1
  /\ lastTaskOp = TaskOp("new", None, NoId, NoId)

\* TaskManager::create
Create ==
  /\ next_id <= MaxTasks
  /\ tasks' = [k \in DOMAIN tasks \cup {next_id} |->
                 IF k = next_id THEN NewTask ELSE tasks[k]]
  /\ next_id' = next_id + 1
  /\ lastTaskOp' = TaskOp("create", None, NoId, NoId)

\* TaskManager::update: returns None, changing nothing, when the id is not
\* in the store.
ManagerUpdate(id, u) ==
  /\ tasks' = IF id \in DOMAIN tasks THEN UpdateStore(tasks, id, u) ELSE tasks
  /\ lastTaskOp' = TaskOp("update", None, NoId, Completes(tasks, id, u))
  /\ UNCHANGED next_id

\* task_update command: any patch, on any id.
Update(id, u) == ManagerUpdate(id, u)

\* execute_task_command "update": `swarm task update <id> <status-word>`.
\* A word that is no status is an error and update is not called.
SwarmTaskUpdate(id, word) ==
  LET st == ParseStatusWord(word)
  IN IF st # None
       THEN ManagerUpdate(id, [status |-> st, owner |-> None,
                               add_blocked_by |-> {}, add_blocks |-> {}])
       ELSE UNCHANGED <<tasks, next_id, lastTaskOp>>

\* TaskManager::claim_available: HashMap::values() has no defined order, so
\* `find` may return any task that satisfies the predicate.
ClaimAvailable(w) ==
  /\ IF \E k \in DOMAIN tasks : Claimable(tasks[k])
       THEN \E k \in DOMAIN tasks :
              /\ Claimable(tasks[k])
              /\ tasks' = [tasks EXCEPT ![k] =
                             [@ EXCEPT !.owner = w, !.status = "in_progress"]]
              /\ lastTaskOp' = TaskOp("claim", w, k, NoId)
       ELSE /\ tasks' = tasks
            /\ lastTaskOp' = TaskOp("claim", w, NoId, NoId)
  /\ UNCHANGED next_id

\* TaskManager::delete = update(id, status = deleted)
Delete(id) ==
  ManagerUpdate(id, [status |-> "deleted", owner |-> None,
                     add_blocked_by |-> {}, add_blocks |-> {}])

TaskNext ==
  \/ Create /\ TaskFrame
  \/ \E id \in TaskIds, u \in TaskUpdate : Update(id, u) /\ TaskFrame
  \/ \E id \in TaskIds, word \in StatusWords :
       SwarmTaskUpdate(id, word) /\ TaskFrame
  \/ \E w \in Workers : ClaimAvailable(w) /\ TaskFrame
  \/ \E id \in TaskIds : Delete(id) /\ TaskFrame

\* --------------------------------------------------- Task Store: claims

\* C1: for all tasks a and b in the store, b is in a.blocks if and only if a
\* is in b.blocked_by, after every operation.
LinksAreInverse ==
  \A a \in DOMAIN tasks, b \in DOMAIN tasks :
    (b \in tasks[a].blocks) <=> (a \in tasks[b].blocked_by)

\* C2: when an update has just moved a task from a status other than
\* completed to completed, no task in the store has that task in its
\* blocked_by, whatever else the update carried.
CompletedBlocksNothing ==
  lastTaskOp.completed # NoId =>
    \A k \in DOMAIN tasks : lastTaskOp.completed \notin tasks[k].blocked_by

\* C3: claim(w) returns a task iff some task was pending, unowned and
\* unblocked at the call; the returned task was such a task; afterwards it has
\* owner = w and status = in_progress and every other task is as before; a
\* claim that returns nothing leaves the store as it was.
ClaimContract ==
  [][lastTaskOp'.op = "claim" =>
       LET w == lastTaskOp'.worker
           k == lastTaskOp'.claimed
           free(t) == t.status = "pending" /\ t.owner = None /\ t.blocked_by = {}
       IN /\ (k # NoId) <=> (\E j \in DOMAIN tasks : free(tasks[j]))
          /\ DOMAIN tasks' = DOMAIN tasks
          /\ k # NoId =>
                /\ k \in DOMAIN tasks
                /\ free(tasks[k])
                /\ tasks'[k].owner = w
                /\ tasks'[k].status = "in_progress"
                /\ \A j \in DOMAIN tasks \ {k} : tasks'[j] = tasks[j]
          /\ k = NoId => tasks' = tasks]_vars

\* C3 witness: a claim has just returned a task while the other task of the
\* store, blocked by a link, was passed over.
ClaimReturnedTask ==
  /\ lastTaskOp.op = "claim"
  /\ lastTaskOp.claimed # NoId
  /\ tasks[lastTaskOp.claimed].owner = lastTaskOp.worker
  /\ \E j \in DOMAIN tasks \ {lastTaskOp.claimed} :
        tasks[j].status = "pending" /\ tasks[j].blocked_by # {}

\* C4: every task whose status is in_progress has an owner.
InProgressHasOwner ==
  \A k \in DOMAIN tasks :
    tasks[k].status = "in_progress" => tasks[k].owner # None

\* C34: when several tasks are claimable, claim returns the one with the
\* smallest id (the first in creation order).
ClaimReturnsOldest ==
  [][lastTaskOp'.op = "claim" /\ lastTaskOp'.claimed # NoId
       /\ tasks' # tasks =>
       \A j \in DOMAIN tasks :
         Claimable(tasks[j]) => lastTaskOp'.claimed <= j]_vars

\* C38: a task that has an owner stays in the store and keeps having an
\* owner, claim returns only tasks that had no owner, and the task it
\* returns has one afterwards; so no task is returned by claim twice, even
\* when its status is set back to pending.
ClaimedAtMostOnce ==
  /\ [][\A k \in DOMAIN tasks :
          tasks[k].owner # None =>
            k \in DOMAIN tasks' /\ tasks'[k].owner # None]_vars
  /\ [][lastTaskOp'.op = "claim" /\ lastTaskOp'.claimed # NoId
          /\ tasks' # tasks =>
          /\ tasks[lastTaskOp'.claimed].owner = None
          /\ tasks'[lastTaskOp'.claimed].owner # None]_vars
  /\ [](\A k \in DOMAIN tasks : tasks[k].owner # None => ~Claimable(tasks[k]))

\* C38 witness: a claim has just returned nothing although a task that has
\* an owner is pending again and unblocked.
OwnedPendingTaskPassedOver ==
  /\ lastTaskOp.op = "claim"
  /\ lastTaskOp.claimed = NoId
  /\ \E k \in DOMAIN tasks :
       /\ tasks[k].owner # None
       /\ tasks[k].status = "pending"
       /\ tasks[k].blocked_by = {}

\* ================================================================== Inbox
\* inbox/message.rs (InboxManager).

\* MessageType::Text contents.
\* The payload of a send and the payload of a broadcast.
SendPayloads == {"bye"}
BroadcastPayloads == {"hello"}

\* The id lists given to mark_read.
MarkedIds == {{1}, {1, 2}}

\* The target lists of broadcast_to: any order, repeats, the sender and
\* unregistered workers included.
TargetLists ==
  {<<>>} \cup {<<w>> : w \in Workers}
    \cup {<<v, w>> : v \in Workers, w \in Workers}

\* Message
NewMessage(id, sender, receiver, content, t) ==
  [id |-> id, from |-> sender, to |-> receiver, message |-> content,
   read |-> FALSE, timestamp |-> t]

\* What an inbox call was and the messages it created or returned.
InboxOp(op, w, result) == [op |-> op, worker |-> w, result |-> result]

\* A broadcast or broadcast_to call between its sends holds the receivers
\* it took at its start, those it has not sent to yet, the messages it has
\* created and who called it: a command of the application or the swarm
\* command of an agent's terminal request.  NoBroadcast is a free place.
NoBroadcast ==
  [op |-> None, sender |-> None, content |-> None, targets |-> <<>>,
   todo |-> <<>>, created |-> <<>>, caller |-> None]

\* The calls that can be between their sends at one time.
CallSlots == 1..MaxCalls

\* The sends the calls in flight still have to make.
Unsent ==
  LET sum[k \in 0..MaxCalls] ==
        IF k = 0 THEN 0 ELSE sum[k - 1] + Len(inbox_calls[k].todo)
  IN sum[MaxCalls]

InboxInit ==
  /\ inbox_calls = [k \in CallSlots |-> NoBroadcast]
  /\ inboxes = << >>
  /\ inbox_workers = <<>>
  /\ next_msg = 1
  /\ clock = 0
  /\ lastInbox = InboxOp(None, None, <<>>)

\* inboxes.entry(w).or_insert_with(Vec::new)
EntryOrInsert(boxes, w) ==
  IF w \in DOMAIN boxes THEN boxes
  ELSE [k \in DOMAIN boxes \cup {w} |->
          IF k = w THEN <<>> ELSE boxes[k]]

\* inboxes.get(w).cloned().unwrap_or_default()
GetOrDefault(boxes, w) == IF w \in DOMAIN boxes THEN boxes[w] ELSE <<>>

\* A clock reading: time stands still or moves on.
Readings == {t \in {clock, clock + 1} : t <= MaxClock}

\* A push without the contains test.
PushAlways(list, w) == Append(list, w)

\* if !workers.contains(w) { workers.push(w) }
PushIfAbsent(list, w) ==
  IF \E i \in 1..Len(list) : list[i] = w THEN list ELSE Append(list, w)

\* register_worker: the worker joins the list once and gets an inbox.  The
\* call is recorded with the list as it was before.
RegisterWorker(w) ==
  /\ inbox_workers' = PushIfAbsent(inbox_workers, w)
  /\ inboxes' = EntryOrInsert(inboxes, w)
  /\ lastInbox' = InboxOp("register_worker", w, inbox_workers)
  /\ UNCHANGED <<next_msg, clock, inbox_calls>>

\* An unregister_worker that throws the worker's inbox away as well.
UnregisterDropsInbox(w) ==
  /\ inbox_workers' = SelectSeq(inbox_workers, LAMBDA v : v # w)
  /\ inboxes' = [k \in DOMAIN inboxes \ {w} |-> inboxes[k]]
  /\ lastInbox' = InboxOp("unregister_worker", w, <<>>)
  /\ UNCHANGED <<next_msg, clock, inbox_calls>>

\* unregister_worker: the worker leaves the list; its inbox stays.
UnregisterWorker(w) ==
  /\ inbox_workers' = SelectSeq(inbox_workers, LAMBDA v : v # w)
  /\ lastInbox' = InboxOp("unregister_worker", w, <<>>)
  /\ UNCHANGED <<inboxes, next_msg, clock, inbox_calls>>

\* send, once per receiver of the list in order: each message gets the
\* next fresh id and is pushed at the end of its receiver's inbox.
RECURSIVE SendAll(_, _, _, _, _, _)
SendAll(boxes, id, sender, receivers, content, t) ==
  IF receivers = <<>> THEN [boxes |-> boxes, created |-> <<>>]
  ELSE LET m == NewMessage(id, sender, Head(receivers), content, t)
           b == EntryOrInsert(boxes, Head(receivers))
           rest == SendAll([b EXCEPT ![Head(receivers)] = Append(@, m)],
                           id + 1, sender, Tail(receivers), content, t)
       IN [boxes |-> rest.boxes, created |-> <<m>> \o rest.created]

\* send(from, to, message)
Send(sender, receiver, content) ==
  /\ next_msg + Unsent <= MaxMessages
  /\ \E t \in Readings :
       LET r == SendAll(inboxes, next_msg, sender, <<receiver>>, content, t)
       IN /\ inboxes' = r.boxes
          /\ clock' = t
          /\ lastInbox' = InboxOp("send", sender, r.created)
  /\ next_msg' = next_msg + 1
  /\ UNCHANGED <<inbox_workers, inbox_calls>>

\* A broadcast that forgets to leave the sender out.
EveryRecipient(list, sender) == list

\* .filter(|w| *w != from)
Recipients(list, sender) == SelectSeq(list, LAMBDA w : w # sender)

\* The receivers of a broadcast or broadcast_to are fixed when the call
\* starts; each of them is then sent to by a send of its own, while other
\* calls run.  Without a receiver the call returns at once.
BeginSends(op, sender, content, receivers, caller) ==
  /\ next_msg + Unsent + Len(receivers) - 1 <= MaxMessages
  /\ IF receivers = <<>>
       THEN /\ lastInbox' = InboxOp(op, sender, <<>>)
            /\ UNCHANGED inbox_calls
       ELSE /\ \E k \in CallSlots :
                 /\ inbox_calls[k].op = None
                 /\ \A j \in 1..(k - 1) : inbox_calls[j].op # None
                 /\ inbox_calls' =
                      [inbox_calls EXCEPT ![k] =
                         [op |-> op, sender |-> sender, content |-> content,
                          targets |-> receivers, todo |-> receivers,
                          created |-> <<>>, caller |-> caller]]
            /\ UNCHANGED lastInbox
  /\ UNCHANGED <<inboxes, inbox_workers, next_msg, clock>>

\* broadcast(from, message): the worker list is copied under its lock, the
\* sender filtered out.
Broadcast(sender, content, caller) ==
  BeginSends("broadcast", sender, content,
             Recipients(inbox_workers, sender), caller)

\* broadcast_to(from, message, targets): the targets but the sender.
BroadcastTo(sender, content, list) ==
  BeginSends("broadcast_to", sender, content, Recipients(list, sender),
             "command")

\* The next send of the call in place k, with its own lock and its own
\* clock reading; after the last one the call returns the messages it
\* created.
BroadcastSends(k) ==
  LET call == inbox_calls[k]
  IN /\ call.op # None
     /\ \E t \in Readings :
          LET r == SendAll(inboxes, next_msg, call.sender,
                           <<Head(call.todo)>>, call.content, t)
              created == call.created \o r.created
          IN /\ inboxes' = r.boxes
             /\ clock' = t
             /\ IF Tail(call.todo) = <<>>
                  THEN /\ lastInbox' = InboxOp(call.op, call.sender, created)
                       /\ inbox_calls' = [inbox_calls EXCEPT ![k] = NoBroadcast]
                  ELSE /\ lastInbox' = InboxOp("send", call.sender, r.created)
                       /\ inbox_calls' =
                            [inbox_calls EXCEPT ![k].todo = Tail(@),
                                                ![k].created = created]
     /\ next_msg' = next_msg + 1
     /\ UNCHANGED inbox_workers

\* read and read_unread: a copy of the worker's messages.
Read(w, unread_only) ==
  /\ lastInbox' =
       InboxOp(IF unread_only THEN "read_unread" ELSE "read", w,
               IF unread_only
                 THEN SelectSeq(GetOrDefault(inboxes, w),
                                LAMBDA m : ~m.read)
                 ELSE GetOrDefault(inboxes, w))
  /\ UNCHANGED <<inboxes, inbox_workers, next_msg, clock, inbox_calls>>

\* mark_read: the messages of the worker's inbox whose id is listed.
MarkRead(w, ids) ==
  /\ inboxes' =
       IF w \in DOMAIN inboxes
         THEN [inboxes EXCEPT ![w] =
                 [i \in 1..Len(@) |->
                    IF @[i].id \in ids THEN [@[i] EXCEPT !.read = TRUE]
                    ELSE @[i]]]
         ELSE inboxes
  /\ lastInbox' = InboxOp("mark_read", w, <<>>)
  /\ UNCHANGED <<inbox_workers, next_msg, clock, inbox_calls>>

\* A mark_all_read that marks the messages of every inbox.
MarkAllReadEverywhere(w) ==
  /\ inboxes' =
       [k \in DOMAIN inboxes |->
          [i \in 1..Len(inboxes[k]) |-> [inboxes[k][i] EXCEPT !.read = TRUE]]]
  /\ lastInbox' = InboxOp("mark_all_read", w, <<>>)
  /\ UNCHANGED <<inbox_workers, next_msg, clock, inbox_calls>>

\* mark_all_read
MarkAllRead(w) ==
  /\ inboxes' =
       IF w \in DOMAIN inboxes
         THEN [inboxes EXCEPT ![w] =
                 [i \in 1..Len(@) |-> [@[i] EXCEPT !.read = TRUE]]]
         ELSE inboxes
  /\ lastInbox' = InboxOp("mark_all_read", w, <<>>)
  /\ UNCHANGED <<inbox_workers, next_msg, clock, inbox_calls>>

\* count(worker_id, unread_only) on the inboxes given.
count(boxes, w, unread_only) ==
  IF w \in DOMAIN boxes
    THEN IF unread_only
           THEN Len(SelectSeq(boxes[w], LAMBDA m : ~m.read))
           ELSE Len(boxes[w])
    ELSE 0

\* count: the call is recorded with the number it returned.
CountMessages(w, unread_only) ==
  /\ lastInbox' =
       InboxOp(IF unread_only THEN "count_unread" ELSE "count", w,
               <<count(inboxes, w, unread_only)>>)
  /\ UNCHANGED <<inboxes, inbox_workers, next_msg, clock, inbox_calls>>

InboxNext ==
  \/ \E w \in Workers, u \in BOOLEAN : CountMessages(w, u) /\ InboxFrame
  \/ \E w \in Workers : RegisterWorker(w) /\ InboxFrame
  \/ \E w \in Workers : UnregisterWorker(w) /\ InboxFrame
  \/ \E v, w \in Workers, c \in SendPayloads : Send(v, w, c) /\ InboxFrame
  \/ \E w \in Workers, c \in BroadcastPayloads :
       Broadcast(w, c, "command") /\ InboxFrame
  \/ \E w \in Workers, c \in BroadcastPayloads, list \in TargetLists :
       BroadcastTo(w, c, list) /\ InboxFrame
  \/ \E k \in CallSlots : BroadcastSends(k) /\ InboxFrame
  \/ \E w \in Workers, u \in BOOLEAN : Read(w, u) /\ InboxFrame
  \/ \E w \in Workers, ids \in MarkedIds :
       MarkRead(w, ids) /\ InboxFrame
  \/ \E w \in Workers : MarkAllRead(w) /\ InboxFrame

\* C14: a broadcast or broadcast_to from a worker creates no message
\* addressed to that worker and leaves that worker's inbox as it was,
\* whether or not the worker is registered or listed among the targets and
\* whatever other calls run between its sends.  The steps of a call are its
\* start, each of its sends and its return.
BroadcastSkipsSender ==
  [][/\ \A k \in CallSlots :
          inbox_calls'[k] # inbox_calls[k] =>
            LET w == IF inbox_calls[k].op # None THEN inbox_calls[k].sender
                     ELSE inbox_calls'[k].sender
                created == IF inbox_calls'[k].op # None
                             THEN inbox_calls'[k].created
                             ELSE lastInbox'.result
            IN /\ \A i \in 1..Len(created) :
                    /\ created[i].to # w
                    /\ created[i].from = w
               /\ GetOrDefault(inboxes', w) = GetOrDefault(inboxes, w)
               /\ w \in DOMAIN inboxes' <=> w \in DOMAIN inboxes
     /\ /\ lastInbox' # lastInbox
        /\ lastInbox'.op \in {"broadcast", "broadcast_to"}
        => LET w == lastInbox'.worker
           IN /\ \A i \in 1..Len(lastInbox'.result) :
                   /\ lastInbox'.result[i].to # w
                   /\ lastInbox'.result[i].from = w
              /\ GetOrDefault(inboxes', w) = GetOrDefault(inboxes, w)
              /\ w \in DOMAIN inboxes' <=> w \in DOMAIN inboxes]_vars

\* C14 witness: a registered worker's broadcast has just returned while the
\* broadcast of another worker is still between its sends: the other
\* worker got the message and the sender's own inbox is still empty.
BroadcastDelivered ==
  /\ lastInbox.op = "broadcast"
  /\ Len(lastInbox.result) = 1
  /\ \E i \in 1..Len(inbox_workers) : inbox_workers[i] = lastInbox.worker
  /\ \E i \in 1..Len(inbox_workers) : inbox_workers[i] = lastInbox.result[1].to
  /\ lastInbox.worker \in DOMAIN inboxes
  /\ inboxes[lastInbox.worker] = <<>>
  /\ \E k \in CallSlots :
       /\ inbox_calls[k].op = "broadcast"
       /\ inbox_calls[k].sender # lastInbox.worker

\* C15: whatever inbox operation runs, a delivered message stays where it
\* is with its id, sender, receiver, payload and timestamp; an inbox grows
\* only at its end; and a read flag goes from false to true only.
InboxAppendOnly ==
  [][\A w \in DOMAIN inboxes :
       /\ w \in DOMAIN inboxes'
       /\ Len(inboxes'[w]) >= Len(inboxes[w])
       /\ \A i \in 1..Len(inboxes[w]) :
            /\ [inboxes'[w][i] EXCEPT !.read = FALSE] =
                 [inboxes[w][i] EXCEPT !.read = FALSE]
            /\ inboxes[w][i].read => inboxes'[w][i].read]_vars

\* C15 witness: an unregistered worker still holds a read message followed
\* by a later unread one.
InboxKeptAfterUnregister ==
  \E w \in DOMAIN inboxes :
    /\ \A i \in 1..Len(inbox_workers) : inbox_workers[i] # w
    /\ lastInbox.op = "unregister_worker"
    /\ lastInbox.worker = w
    /\ Len(inboxes[w]) = 2
    /\ inboxes[w][1].read
    /\ ~inboxes[w][2].read

\* C31: right after mark_all_read(w), count(w, unread_only = true) is 0 and
\* read_unread(w) is empty, count(w, unread_only = false) is what it was
\* before the call, and the messages and read flags of every other worker
\* are unchanged.
MarkAllReadContract ==
  /\ [][lastInbox'.op = "mark_all_read" =>
          LET w == lastInbox'.worker
          IN /\ count(inboxes', w, TRUE) = 0
             /\ count(inboxes', w, FALSE) = count(inboxes, w, FALSE)
             /\ \A v \in Workers \ {w} :
                  /\ GetOrDefault(inboxes', v) = GetOrDefault(inboxes, v)
                  /\ v \in DOMAIN inboxes' <=> v \in DOMAIN inboxes]_vars
  /\ [][/\ lastInbox.op = "mark_all_read"
        /\ lastInbox'.worker = lastInbox.worker
        /\ lastInbox'.op \in {"count_unread", "read_unread"}
        => lastInbox'.result =
             IF lastInbox'.op = "count_unread" THEN <<0>> ELSE <<>>]_vars

\* C31 witness: mark_all_read has just run for a worker that holds a
\* message, while the other worker holds an unread one.
OthersStayUnread ==
  /\ lastInbox.op = "mark_all_read"
  /\ count(inboxes, lastInbox.worker, FALSE) = 1
  /\ count(inboxes, lastInbox.worker, TRUE) = 0
  /\ \E v \in Workers \ {lastInbox.worker} : count(inboxes, v, TRUE) = 1

\* C32: registering a worker that is already registered leaves the worker
\* list and every inbox as they were; the list never holds a worker twice;
\* and every broadcast, whatever calls run between its sends, creates
\* exactly one message for each worker other than the sender that is
\* registered when the broadcast starts: it takes each of them once as a
\* receiver, each of its sends adds one message to the inbox of the
\* receiver it is for, and it returns one message for each receiver it
\* took.
RegisterIsIdempotent ==
  /\ [][/\ lastInbox'.op = "register_worker"
        /\ \E i \in 1..Len(inbox_workers) :
             inbox_workers[i] = lastInbox'.worker
        => inbox_workers' = inbox_workers /\ inboxes' = inboxes]_vars
  /\ [](\A i, j \in 1..Len(inbox_workers) :
          inbox_workers[i] = inbox_workers[j] => i = j)
  /\ [][lastInbox'.op = "broadcast" /\ lastInbox' # lastInbox
          /\ inbox_calls' = inbox_calls
        => \A i \in 1..Len(inbox_workers) :
             inbox_workers[i] = lastInbox'.worker]_vars
  /\ [][\A k \in CallSlots :
          inbox_calls[k].op = None /\ inbox_calls'[k].op = "broadcast" =>
            \A w \in Workers \ {inbox_calls'[k].sender} :
              (\E i \in 1..Len(inbox_workers) : inbox_workers[i] = w)
                => Cardinality({i \in 1..Len(inbox_calls'[k].targets) :
                                  inbox_calls'[k].targets[i] = w}) = 1]_vars
  /\ [][\A k \in CallSlots :
          inbox_calls[k].op = "broadcast"
            /\ inbox_calls'[k] # inbox_calls[k] =>
            LET w == Head(inbox_calls[k].todo)
                n == Len(GetOrDefault(inboxes, w))
            IN /\ Len(inboxes'[w]) = n + 1
               /\ SubSeq(inboxes'[w], 1, n) = GetOrDefault(inboxes, w)
               /\ inboxes'[w][n + 1].to = w
               /\ inboxes'[w][n + 1].from = inbox_calls[k].sender
               /\ inbox_calls'[k].op = None =>
                    \A v \in Workers :
                      Cardinality({i \in 1..Len(lastInbox'.result) :
                                     lastInbox'.result[i].to = v})
                        = Cardinality({i \in 1..Len(inbox_calls[k].targets) :
                                         inbox_calls[k].targets[i] = v})]_vars

\* C32 witness: a worker that was registered and holds a message has just
\* been registered again.
RegisteredAgainWithMessages ==
  /\ lastInbox.op = "register_worker"
  /\ \E i \in 1..Len(lastInbox.result) : lastInbox.result[i] = lastInbox.worker
  /\ lastInbox.worker \in DOMAIN inboxes
  /\ inboxes[lastInbox.worker] # <<>>

\* ============================================================== Terminals
\* acp/client.rs (create_terminal, handle_swarm_terminal), acp/swarm.rs
\* (parse_swarm_command, parse_shell_tokens, execute_swarm_command).

\* create_terminal: the command line built from the request.
FullCommand(command, args) ==
  IF args = <<>> THEN command ELSE command \o <<" ">> \o Join(args, <<" ">>)

\* is_swarm_command: after trimming, the line starts with "swarm ".
is_swarm_command(command) == StartsWith(Trim(command), SwarmPrefix)

\* parse_shell_tokens: one pass over the characters; quotes group, spaces
\* outside quotes separate, empty tokens are never pushed.
RECURSIVE ShellTokens(_, _, _, _, _)
ShellTokens(input, tokens, current, in_quotes, quote_char) ==
  IF input = <<>>
    THEN IF current # <<>> THEN Append(tokens, current) ELSE tokens
    ELSE LET c == Head(input)
             rest == Tail(input)
         IN IF c \in {"\"", "'"} /\ ~in_quotes
              THEN ShellTokens(rest, tokens, current, TRUE, c)
            ELSE IF c = quote_char /\ in_quotes
              THEN ShellTokens(rest, tokens, current, FALSE, quote_char)
            ELSE IF c = " " /\ ~in_quotes
              THEN IF current # <<>>
                     THEN ShellTokens(rest, Append(tokens, current), <<>>,
                                      in_quotes, quote_char)
                     ELSE ShellTokens(rest, tokens, current,
                                      in_quotes, quote_char)
            ELSE ShellTokens(rest, tokens, Append(current, c),
                             in_quotes, quote_char)

parse_shell_tokens(input) == ShellTokens(input, <<>>, <<>>, FALSE, "\"")

\* SwarmCategory, from the lower-cased first token; None for any other word.
ParseCategory(token) ==
  LET w == ToLowercase(token)
  IN CASE w = <<"t", "a", "s", "k">> -> "task"
       [] w = <<"i", "n", "b", "o", "x">> -> "inbox"
       [] w = <<"t", "e", "a", "m">> -> "team"
       [] OTHER -> None

\* The None of Option<SwarmCommand>.
NoCommand == [category |-> None, action |-> <<>>, args |-> <<>>]

\* parse_swarm_command.
parse_swarm_command(command) ==
  LET trimmed == Trim(command)
  IN IF ~StartsWith(trimmed, SwarmPrefix) THEN NoCommand
     ELSE LET tokens == parse_shell_tokens(SubSeq(trimmed, 7, Len(trimmed)))
          IN IF tokens = <<>> THEN NoCommand
             ELSE IF ParseCategory(tokens[1]) = None THEN NoCommand
             ELSE LET action == IF Len(tokens) >= 2 THEN tokens[2] ELSE <<>>
                  IN IF action = <<>> THEN NoCommand
                     ELSE [category |-> ParseCategory(tokens[1]),
                           action |-> action,
                           args |-> SubSeq(tokens, 3, Len(tokens))]

\* cmd.args.first() as a string, "" when there is none.
FirstArg(cmd) == IF cmd.args = <<>> THEN <<>> ELSE cmd.args[1]

\* execute_task_command: SwarmResult.success, computed on the store the
\* command finds.
TaskCommandSuccess(cmd, s) ==
  CASE cmd.action = <<"l", "i", "s", "t">> -> TRUE
    [] cmd.action = <<"g", "e", "t">> -> IdOfString(FirstArg(cmd)) \in DOMAIN s
    [] cmd.action = <<"c", "l", "a", "i", "m">> -> \E k \in DOMAIN s : Claimable(s[k])
    [] cmd.action = <<"c", "r", "e", "a", "t", "e">> -> Len(cmd.args) >= 2
    [] cmd.action = <<"u", "p", "d", "a", "t", "e">> ->
         /\ Len(cmd.args) >= 2
         /\ ParseStatusWord(cmd.args[2]) # None
         /\ IdOfString(cmd.args[1]) \in DOMAIN s
    [] cmd.action = <<"d", "e", "l", "e", "t", "e">> -> IdOfString(FirstArg(cmd)) \in DOMAIN s
    [] OTHER -> FALSE

\* execute_task_command: what the command does to the task store.
ExecuteTaskCommand(cmd, worker) ==
  CASE cmd.action = <<"c", "l", "a", "i", "m">> -> ClaimAvailable(worker)
    [] cmd.action = <<"c", "r", "e", "a", "t", "e">> /\ Len(cmd.args) >= 2 -> Create
    [] cmd.action = <<"u", "p", "d", "a", "t", "e">> /\ Len(cmd.args) >= 2 ->
         SwarmTaskUpdate(IdOfString(cmd.args[1]), cmd.args[2])
    [] cmd.action = <<"d", "e", "l", "e", "t", "e">> /\ FirstArg(cmd) # <<>> ->
         Delete(IdOfString(FirstArg(cmd)))
    [] OTHER -> UNCHANGED taskVars

\* execute_inbox_command: SwarmResult.success.  Only a write or a broadcast
\* without its arguments and an unknown action are errors.
InboxCommandSuccess(cmd) ==
  CASE cmd.action = <<"r", "e", "a", "d">> -> TRUE
    [] cmd.action = <<"w", "r", "i", "t", "e">> -> Len(cmd.args) >= 2
    [] cmd.action = <<"b", "r", "o", "a", "d", "c", "a", "s", "t">> ->
         cmd.args # <<>>
    [] cmd.action = <<"w", "o", "r", "k", "e", "r", "s">> -> TRUE
    [] cmd.action = <<"m", "a", "r", "k", "-", "r", "e", "a", "d">> -> TRUE
    [] cmd.action = <<"c", "o", "u", "n", "t">> -> TRUE
    [] OTHER -> FALSE

\* A worker id given on the command line, as the key of its inbox.  The
\* command lines of the model name the two workers of the model.
WorkerOfString(s) ==
  LET WorkerString(w) == IF w = "w1" THEN <<"w", "1">> ELSE <<"w", "2">>
  IN IF \E w \in Workers : WorkerString(w) = s
       THEN CHOOSE w \in Workers : WorkerString(w) = s
       ELSE None

\* execute_inbox_command: what the command does to the InboxManager.
ExecuteInboxCommand(cmd, worker) ==
  CASE cmd.action = <<"r", "e", "a", "d">> ->
         Read(worker, FirstArg(cmd) = <<"-", "-", "u", "n", "r", "e", "a", "d">>)
    [] cmd.action = <<"w", "r", "i", "t", "e">> /\ Len(cmd.args) >= 2 ->
         Send(worker, WorkerOfString(cmd.args[1]), cmd.args[2])
    [] cmd.action = <<"b", "r", "o", "a", "d", "c", "a", "s", "t">>
         /\ cmd.args # <<>> ->
         Broadcast(worker, cmd.args[1], "terminal")
    [] cmd.action = <<"m", "a", "r", "k", "-", "r", "e", "a", "d">> ->
         MarkAllRead(worker)
    [] cmd.action = <<"c", "o", "u", "n", "t">> ->
         CountMessages(worker,
                       cmd.args = <<>>
                         \/ cmd.args[1] = <<"-", "-", "u", "n", "r", "e", "a", "d">>)
    [] OTHER -> UNCHANGED inboxVars

\* execute_swarm_command: SwarmResult.success.
SwarmCommandSuccess(cmd, s) ==
  CASE cmd.category = "task" -> TaskCommandSuccess(cmd, s)
    [] cmd.category = "inbox" -> InboxCommandSuccess(cmd)
    [] OTHER -> FALSE

\* execute_swarm_command: the effect on the coordination state.
ExecuteSwarmCommand(cmd, worker) ==
  CASE cmd.category = "task" ->
         ExecuteTaskCommand(cmd, worker) /\ UNCHANGED inboxVars
    [] cmd.category = "inbox" ->
         ExecuteInboxCommand(cmd, worker) /\ UNCHANGED taskVars
    [] OTHER -> UNCHANGED <<taskVars, inboxVars>>

\* The worker the connection belongs to (CrafterClient.worker_id).
TermWorker == "w1"

\* The commands and argument lists an agent sends in the model.
SwarmWord == <<"s", "w", "a", "r", "m">>
TermCommands ==
  {<<"s", "w", "a", "r", "m">>,
   <<"s", "w", "a", "r", "m", " ", "t", "a", "s", "k">>,
   <<"l", "s">>}
TermArgs ==
  {<<>>,
   <<<<>>>>,
   <<<<"t", "a", "s", "k">>, <<"c", "l", "a", "i", "m">>>>,
   <<<<"t", "a", "s", "k">>, <<"c", "r", "e", "a", "t", "e">>, <<"a">>, <<"b">>>>,
   <<<<"t", "a", "s", "k">>, <<"c", "r", "e", "a", "t", "e">>, <<"'", "a">>, <<"b", "'">>>>,
   <<<<"T", "a", "s", "k">>, <<"u", "p", "d", "a", "t", "e">>, <<"1">>, <<"d", "o", "n", "e">>>>,
   <<<<"t", "a", "s", "k">>, <<"u", "p", "d", "a", "t", "e">>, <<"1">>, <<"i", "n", "_", "p", "r", "o", "g", "r", "e", "s", "s">>>>,
   <<<<"t", "a", "s", "k">>, <<"u", "p", "d", "a", "t", "e">>, <<"2">>, <<"b", "o", "g", "u", "s">>>>,
   <<<<"t", "a", "s", "k">>, <<"d", "e", "l", "e", "t", "e">>, <<"1">>>>,
   <<<<"t", "a", "s", "k">>>>,
   <<<<"i", "n", "b", "o", "x">>, <<"c", "o", "u", "n", "t">>>>,
   <<<<"l", "i", "s", "t">>>>}

TermOp(op, command, args, route, response, success) ==
  [op |-> op, command |-> command, args |-> args, route |-> route,
   response |-> response, success |-> success]

\* The answer to a request about one terminal: Ok with the output read and
\* whether an exit status is in it, or an error with its code.
TermReply(op, id, response, output, exited) ==
  [op |-> op, id |-> id, response |-> response, output |-> output,
   exited |-> exited, code |-> IF response = "error" THEN HostError ELSE 0]

\* No terminal request is waiting in its handler.
NoCall == [op |-> None, id |-> NoId]

\* The terminal ids an agent asks about: those of the children and one
\* that was never created.
TermIds == 1..(MaxTerminals + 1)

TermInit ==
  /\ terminals = <<>>
  /\ next_pid = 1
  /\ free_pids = {}
  /\ released = {}
  /\ coordination \in BOOLEAN
  /\ lastTerm = TermOp("new", <<>>, <<>>, None, None, FALSE)
  /\ term_call = NoCall

\* A child just spawned with piped stdout: running, nothing written yet.
\* bytes counts the chunks written to the pipe and not yet read; open says
\* that some process still holds the write end of the pipe; signalled that
\* child.kill() has sent SIGKILL to the running child, which has not died
\* of it yet; reaped that the child's exit status has been collected by
\* try_wait or wait.
NewChild(script) ==
  [script |-> script, alive |-> TRUE, bytes |-> 0, open |-> TRUE,
   signalled |-> FALSE, reaped |-> FALSE]

\* child.id() of a new child: a pid the OS has never given out, or the pid
\* of a child that has exited and been reaped, whose terminal may still be
\* registered.
SpawnPids ==
  (IF next_pid <= MaxTerminals THEN {next_pid} ELSE {})
    \cup free_pids \cup {p \in DOMAIN terminals : terminals[p].reaped}

\* terminals.insert("term_<pid>", child): an entry with the same key is
\* replaced.
RegisterTerminal(script, pid) ==
  /\ terminals' = [p \in DOMAIN terminals \cup {pid} |->
                     IF p = pid THEN NewChild(script)
                     ELSE terminals[p]]
  /\ next_pid' = IF pid = next_pid THEN next_pid + 1 ELSE next_pid
  /\ free_pids' = free_pids \ {pid}

\* The echo process that carries the result of a swarm command: the
\* terminal is registered if the OS could start the child.
SwarmTerminal(command, args, success, spawned, pid) ==
  IF spawned
    THEN /\ RegisterTerminal("echo", pid)
         /\ lastTerm' = TermOp("create", command, args, "swarm", "terminal",
                               success)
    ELSE /\ lastTerm' = TermOp("create", command, args, "swarm", "error",
                               success)
         /\ UNCHANGED <<terminals, next_pid, free_pids>>

\* handle_swarm_terminal: Err(-32000) without the coordination managers or
\* when the line does not parse; otherwise the command is executed and a
\* child that echoes the result is spawned and registered.  The step goes
\* up to the end of execute_swarm_command, or, when the command is a
\* broadcast with receivers, up to its first send: the handler runs on the
\* connection's thread, which serves no other request until it returns.
HandleSwarmTerminal(full, command, args, spawned, pid) ==
  LET cmd == parse_swarm_command(full)
  IN IF ~coordination \/ cmd = NoCommand
       THEN /\ lastTerm' = TermOp("create", command, args, "swarm", "error",
                                  FALSE)
            /\ UNCHANGED <<taskVars, inboxVars, terminals, next_pid,
                           free_pids, term_call>>
       ELSE /\ ExecuteSwarmCommand(cmd, TermWorker)
            /\ IF \E k \in CallSlots : inbox_calls'[k].caller = "terminal"
                 THEN /\ lastTerm' = TermOp("create", command, args, "swarm",
                                            "pending",
                                            SwarmCommandSuccess(cmd, tasks))
                      /\ term_call' = [op |-> "create", id |-> NoId]
                      /\ UNCHANGED <<terminals, next_pid, free_pids>>
                 ELSE /\ SwarmTerminal(command, args,
                                       SwarmCommandSuccess(cmd, tasks),
                                       spawned, pid)
                      /\ UNCHANGED term_call

\* create_terminal: swarm lines are intercepted, any other line is run by
\* /bin/sh -c; spawned says whether the OS could start the child and pid
\* which pid it gave it.
CreateTerminal(command, args, spawned, pid) ==
  LET full == FullCommand(command, args)
  IN /\ pid \in SpawnPids
     /\ term_call = NoCall
     /\ IF is_swarm_command(full)
          THEN HandleSwarmTerminal(full, command, args, spawned, pid)
          ELSE /\ IF spawned
                    THEN /\ RegisterTerminal("sh", pid)
                         /\ lastTerm' = TermOp("create", command, args,
                                               "shell", "terminal", FALSE)
                    ELSE /\ lastTerm' = TermOp("create", command, args,
                                               "shell", "error", FALSE)
                         /\ UNCHANGED <<terminals, next_pid, free_pids>>
               /\ UNCHANGED <<taskVars, inboxVars, term_call>>
     /\ UNCHANGED <<coordination, released>>

\* handle_swarm_terminal inside a broadcast: the next send of the
\* broadcast and, after the last one, the echo process and the response.
SwarmBroadcastSends(spawned, pid) ==
  /\ term_call.op = "create"
  /\ pid \in SpawnPids
  /\ \E k \in CallSlots :
       /\ inbox_calls[k].caller = "terminal"
       /\ BroadcastSends(k)
       /\ IF inbox_calls'[k].op = None
            THEN /\ SwarmTerminal(lastTerm.command, lastTerm.args,
                                  lastTerm.success, spawned, pid)
                 /\ term_call' = NoCall
            ELSE UNCHANGED <<terminals, next_pid, free_pids, lastTerm,
                             term_call>>
  /\ UNCHANGED <<taskVars, coordination, released>>

\* A process that holds the write end of the pipe writes to it: the child
\* while it runs, or a process the child has left behind.
ChildWrites(p) ==
  /\ p \in DOMAIN terminals
  /\ terminals[p].open
  /\ terminals[p].bytes < MaxChunks
  /\ terminals' = [terminals EXCEPT ![p].bytes = @ + 1]
  /\ UNCHANGED <<taskVars, next_pid, free_pids, released, coordination,
                 lastTerm, term_call>>

\* The child exits, by itself or of the signal a kill has sent; its end of
\* the pipe is closed with it unless a process it has left behind still
\* holds it.
ChildExits(p, closes) ==
  /\ p \in DOMAIN terminals
  /\ terminals[p].alive
  /\ terminals' = [terminals EXCEPT ![p].alive = FALSE,
                                    ![p].open = @ /\ ~closes]
  /\ UNCHANGED <<taskVars, next_pid, free_pids, released, coordination,
                 lastTerm, term_call>>

\* The last write end of the pipe is closed: by the child, which may go on
\* running, or by the last process the child left behind.
StdoutCloses(p) ==
  /\ p \in DOMAIN terminals
  /\ terminals[p].open
  /\ terminals' = [terminals EXCEPT ![p].open = FALSE]
  /\ UNCHANGED <<taskVars, next_pid, free_pids, released, coordination,
                 lastTerm, term_call>>

\* stdout.read(&mut buf) on the pipe returns: there are bytes, or every
\* write end is closed (end of file, no bytes); otherwise the read waits.
ReadReturns(child) == child.bytes > 0 \/ ~child.open

\* terminal_output after the lookup: the bytes of one read, then try_wait:
\* an exit status only if the child has exited, which reaps the child.
OutputReply(p) ==
  /\ lastTerm' = TermReply("output", p, "ok", terminals[p].bytes,
                           ~terminals[p].alive)
  /\ terminals' = [terminals EXCEPT ![p].bytes = 0,
                                    ![p].reaped = @ \/ ~terminals[p].alive]
  /\ term_call' = NoCall

\* terminal_output: Err(-32000) for an id that is not registered; else the
\* handler reads the child's stdout under the terminals lock.
TerminalOutput(p) ==
  /\ term_call = NoCall
  /\ IF p \notin DOMAIN terminals
       THEN /\ lastTerm' = TermReply("output", p, "error", 0, FALSE)
            /\ UNCHANGED <<terminals, term_call>>
       ELSE IF ReadReturns(terminals[p])
         THEN OutputReply(p)
         ELSE /\ term_call' = [op |-> "output", id |-> p]
              /\ UNCHANGED <<terminals, lastTerm>>
  /\ UNCHANGED <<taskVars, next_pid, free_pids, released, coordination>>

\* The read of a waiting terminal_output returns.
OutputUnblocks ==
  /\ term_call.op = "output"
  /\ ReadReturns(terminals[term_call.id])
  /\ OutputReply(term_call.id)
  /\ UNCHANGED <<taskVars, next_pid, free_pids, released, coordination>>

\* child.wait() has returned: the exit status is the answer and the child
\* is reaped.
WaitReply(p) ==
  /\ lastTerm' = TermReply("wait", p, "ok", 0, TRUE)
  /\ terminals' = [terminals EXCEPT ![p].reaped = TRUE]
  /\ term_call' = NoCall

\* wait_for_terminal_exit: Err(-32000) for an id that is not registered;
\* else child.wait() under the terminals lock.
WaitForTerminalExit(p) ==
  /\ term_call = NoCall
  /\ IF p \notin DOMAIN terminals
       THEN /\ lastTerm' = TermReply("wait", p, "error", 0, FALSE)
            /\ UNCHANGED <<terminals, term_call>>
       ELSE IF ~terminals[p].alive
         THEN WaitReply(p)
         ELSE /\ term_call' = [op |-> "wait", id |-> p]
              /\ UNCHANGED <<terminals, lastTerm>>
  /\ UNCHANGED <<taskVars, next_pid, free_pids, released, coordination>>

\* child.wait() of a waiting wait_for_terminal_exit returns.
WaitUnblocks ==
  /\ term_call.op = "wait"
  /\ ~terminals[term_call.id].alive
  /\ WaitReply(term_call.id)
  /\ UNCHANGED <<taskVars, next_pid, free_pids, released, coordination>>

\* kill_terminal_command answers Ok whether or not the id is registered.
KillResponse(known) == "ok"

\* kill_terminal_command: child.kill() if the id is registered, its result
\* ignored; the child stays registered.  kill() returns once the signal is
\* sent: the child is still running when the request is answered and
\* exits in a later step.
KillTerminal(p) ==
  /\ term_call = NoCall
  /\ terminals' = IF p \in DOMAIN terminals /\ terminals[p].alive
                    THEN [terminals EXCEPT ![p].signalled = TRUE]
                    ELSE terminals
  /\ lastTerm' = TermReply("kill", p, KillResponse(p \in DOMAIN terminals),
                           0, FALSE)
  /\ UNCHANGED <<taskVars, next_pid, free_pids, released, coordination,
                 term_call>>

\* Dropping a std::process::Child kills nothing: the children of the map m
\* that still run keep running, with no handle left to them.
DroppedRunning(m, pids) == {q \in pids \cap DOMAIN m : m[q].alive}

\* The pids of the dropped children that had been reaped: the OS can give
\* them to a new child.
DroppedReaped(m, pids) == {q \in pids \cap DOMAIN m : m[q].reaped}

\* release_terminal: terminals.remove(id); the removed Child is dropped.
ReleaseTerminal(p) ==
  /\ term_call = NoCall
  /\ terminals' = [q \in DOMAIN terminals \ {p} |-> terminals[q]]
  /\ orphans' = orphans \cup DroppedRunning(terminals, {p})
  /\ free_pids' = free_pids \cup DroppedReaped(terminals, {p})
  /\ released' = released \cup ({p} \cap DOMAIN terminals)
  /\ lastTerm' = TermReply("release", p, "ok", 0, FALSE)
  /\ UNCHANGED <<taskVars, next_pid, coordination, term_call, client_dropped>>

\* The AcpClient is dropped, and with it the connection, its CrafterClient
\* and the terminals map with every Child in it.
DropClient ==
  /\ client_dropped' = TRUE
  /\ orphans' = orphans \cup DroppedRunning(terminals, DOMAIN terminals)
  /\ free_pids' = free_pids \cup DroppedReaped(terminals, DOMAIN terminals)
  /\ terminals' = <<>>

\* A child without a handle exits by itself.
OrphanExits(p) ==
  /\ p \in orphans
  /\ orphans' = orphans \ {p}
  /\ UNCHANGED <<taskVars, termVars, client_dropped>>

\* The connection's requests are handled on the supervisor's thread, one
\* at a time, while the supervisor is inside an await and no handler holds
\* the thread.
AwaitPoints ==
  {"initialize", "authenticate", "open_session", "prompting", "cancelling",
   "requesting", "idle", "killing"}
Serves == ~client_dropped /\ pc \in AwaitPoints /\ term_call = NoCall

\* C36: no terminal child runs without the connection that owns it: none
\* after the supervisor has returned, and none whose terminal was released.
NoTerminalChildOutlivesOwner == orphans = {}

\* C5: a createTerminal request whose command is `swarm` is handled by the
\* swarm interpreter and its command line is never handed to /bin/sh,
\* whatever its args.
SwarmNeverReachesShell ==
  (lastTerm.op = "create" /\ lastTerm.command = SwarmWord)
    => lastTerm.route = "swarm"

\* ============================================================ Swarm parser
\* acp/swarm.rs (is_swarm_command, parse_swarm_command, parse_shell_tokens)
\* applied to command lines.

\* The command lines of the model: optional leading space, a program, a
\* category, an action and arguments, some of them quoted.
LinePrograms ==
  {<<"s", "w", "a", "r", "m">>, <<"l", "s">>,
   <<"e", "c", "h", "o", " ", "s", "w", "a", "r", "m">>}
LineCategories ==
  {<<>>, <<" ", "t", "a", "s", "k">>, <<" ", "i", "n", "b", "o", "x">>,
   <<" ", "t", "e", "a", "m">>, <<" ", "T", "a", "s", "k">>,
   <<" ", "l", "s">>, <<" ", " ", "t", "a", "s", "k">>}
LineActions ==
  {<<>>, <<" ", "l", "i", "s", "t">>, <<" ", "c", "r", "e", "a", "t", "e">>}
LineArguments ==
  {<<>>, <<" ">>, <<" ", "a">>, <<" ", "'", "a", " ", "b", "'">>,
   <<" ", "\"", "a", " ", " ", "b", "\"", " ", "c">>,
   <<" ", "a", "'", "b", " ", "c", "'", "d">>,
   <<" ", "\"", "a", "'", "b", "\"">>,
   <<" ", "'", "'", " ", "b">>}
SwarmLines ==
  {lead \o prog \o cat \o act \o args :
     lead \in {<<>>, <<" ">>}, prog \in LinePrograms,
     cat \in LineCategories, act \in LineActions, args \in LineArguments}

NotParsed == [done |-> FALSE, is_swarm |-> FALSE, parsed |-> NoCommand]

SwarmInit ==
  /\ swarm_line \in SwarmLines
  /\ swarm_cmd = NotParsed

\* The line is tested with is_swarm_command and parsed with
\* parse_swarm_command.
ParseLine ==
  /\ swarm_cmd = NotParsed
  /\ swarm_cmd' = [done |-> TRUE,
                   is_swarm |-> is_swarm_command(swarm_line),
                   parsed |-> parse_swarm_command(swarm_line)]
  /\ UNCHANGED swarm_line

SwarmNext == ParseLine /\ SwarmFrame

\* The words of a shell-like line without escapes: spaces outside quotes
\* separate, a pair of quotes groups what it encloses and is removed, and a
\* word exists once a character or a quote of it was read.
RECURSIVE ShellWords(_, _, _, _, _)
ShellWords(input, words, word, begun, quote) ==
  IF input = <<>>
    THEN IF begun THEN Append(words, word) ELSE words
    ELSE LET c == Head(input)
             rest == Tail(input)
         IN IF quote = None /\ c \in {"\"", "'"}
              THEN ShellWords(rest, words, word, TRUE, c)
            ELSE IF quote # None /\ c = quote
              THEN ShellWords(rest, words, word, TRUE, None)
            ELSE IF quote = None /\ c = " "
              THEN IF begun
                     THEN ShellWords(rest, Append(words, word), <<>>, FALSE,
                                     None)
                     ELSE ShellWords(rest, words, <<>>, FALSE, None)
            ELSE ShellWords(rest, words, Append(word, c), TRUE, quote)

\* The words that follow `swarm ` on a trimmed line.
WordsAfterSwarm(line) ==
  ShellWords(SubSeq(Trim(line), 7, Len(Trim(line))), <<>>, <<>>, FALSE, None)

CategoryWords ==
  {<<"t", "a", "s", "k">>, <<"i", "n", "b", "o", "x">>,
   <<"t", "e", "a", "m">>}

\* C30: a line parses to a command only if it is a swarm command; a swarm
\* command whose first word after `swarm` is task, inbox or team and which
\* has a non-empty action word parses to that category, that action and the
\* remaining words as arguments, a quoted argument being one word with its
\* inner spaces kept; a line that is not a swarm command parses to nothing.
SwarmParseContract ==
  swarm_cmd.done =>
    LET words == WordsAfterSwarm(swarm_line)
    IN /\ swarm_cmd.parsed # NoCommand => swarm_cmd.is_swarm
       /\ ~swarm_cmd.is_swarm => swarm_cmd.parsed = NoCommand
       /\ (/\ swarm_cmd.is_swarm
           /\ Len(words) >= 2
           /\ words[1] \in CategoryWords
           /\ words[2] # <<>>)
            => swarm_cmd.parsed =
                 [category |-> ParseCategory(words[1]),
                  action |-> words[2],
                  args |-> SubSeq(words, 3, Len(words))]

\* =================================================================== Files
\* acp/client.rs (CrafterClient::read_text_file).

\* The characters of a file and the files of the model; a line and a limit
\* of a request are <<>> (None) or <<n>> (Some(n)).
FileChars == {"a", "b", "\n"}
FileContents == UNION {[1..n -> FileChars] : n \in 0..MaxFileLen}
LineArgs == {<<>>} \cup {<<n>> : n \in 0..MaxLineArg}

\* str::lines: the pieces between line feeds, without a last empty piece.
RECURSIVE SplitLines(_, _, _)
SplitLines(input, done, current) ==
  IF input = <<>>
    THEN IF current # <<>> THEN Append(done, current) ELSE done
    ELSE IF Head(input) = "\n"
      THEN SplitLines(Tail(input), Append(done, current), <<>>)
      ELSE SplitLines(Tail(input), done, Append(current, Head(input)))

Lines(content) == SplitLines(content, <<>>, <<>>)

SaturatingSub(a, b) == IF a >= b THEN a - b ELSE 0
Smaller(a, b) == IF a <= b THEN a ELSE b

\* A start that takes the line number as an index.
LineStartZeroBased(start_line, n) == Smaller(start_line, n)

\* (start_line as usize).saturating_sub(1).min(lines.len())
LineStart(start_line, n) == Smaller(SaturatingSub(start_line, 1), n)

\* read_text_file, once the file was read: the match on (line, limit).
read_text_file(content, line, limit) ==
  IF line # <<>>
    THEN LET lines == Lines(content)
             start == LineStart(line[1], Len(lines))
             end == IF limit # <<>>
                      THEN Smaller(start + limit[1], Len(lines))
                      ELSE Len(lines)
         IN Join(SubSeq(lines, start + 1, end), <<"\n">>)
    ELSE IF limit # <<>>
      THEN LET lines == Lines(content)
           IN Join(SubSeq(lines, 1, Smaller(limit[1], Len(lines))),
                   <<"\n">>)
      ELSE content

NoRead == [op |-> None, line |-> <<>>, limit |-> <<>>, content |-> <<>>]

FsInit ==
  /\ file \in FileContents
  /\ lastRead = NoRead

\* A readTextFile request for the file, which is readable.
ReadTextFile(line, limit) ==
  /\ lastRead' = [op |-> "read", line |-> line, limit |-> limit,
                  content |-> read_text_file(file, line, limit)]
  /\ UNCHANGED file

\* A writeTextFile request for the file: the content replaces the file's.
WriteTextFile(content) ==
  /\ file' = content
  /\ lastRead' = [op |-> "write", line |-> <<>>, limit |-> <<>>,
                  content |-> content]

FsNext ==
  \/ \E line \in LineArgs, limit \in LineArgs :
       ReadTextFile(line, limit) /\ FsFrame
  \/ \E content \in FileContents : WriteTextFile(content) /\ FsFrame

\* The lines of a file from the 1-based line first on, at most n of
\* them, joined by line feeds.
Window(content, first, n) ==
  LET lines == Lines(content)
      k == IF first > Len(lines) THEN 0
           ELSE Smaller(n, Len(lines) - first + 1)
  IN Join([i \in 1..k |-> lines[first + i - 1]], <<"\n">>)

\* C27 as stated: a readTextFile answers from the file as it is when the
\* request is served: with line and limit, at most limit lines from the
\* 1-based line on (empty beyond the last line); with only a limit, the
\* first limit lines; in every other case, also with only a line, the whole
\* file.
ReadIsWindowOrWholeFile ==
  [][lastRead'.op = "read" /\ lastRead' # lastRead =>
      LET r == lastRead'
      IN /\ file' = file
         /\ r.line # <<>> /\ r.limit # <<>> /\ r.line[1] >= 1
              => r.content = Window(file, r.line[1], r.limit[1])
         /\ r.line = <<>> /\ r.limit # <<>>
              => r.content = Window(file, 1, r.limit[1])
         /\ r.limit = <<>> => r.content = file]_vars

\* C27: a readTextFile answers from the file as it is when the request is
\* served, whatever was written to it before: with line and limit, at most
\* limit lines from the 1-based line on (empty beyond the last line); with
\* only a limit, the first limit lines; with only a line, the lines from
\* that line to the end of the file; with neither, the whole file.
ReadIsWindowOrTailOrWholeFile ==
  [][lastRead'.op = "read" /\ lastRead' # lastRead =>
      LET r == lastRead'
      IN /\ file' = file
         /\ r.line # <<>> /\ r.limit # <<>> /\ r.line[1] >= 1
              => r.content = Window(file, r.line[1], r.limit[1])
         /\ r.line = <<>> /\ r.limit # <<>>
              => r.content = Window(file, 1, r.limit[1])
         /\ r.line # <<>> /\ r.limit = <<>> /\ r.line[1] >= 1
              => r.content = Window(file, r.line[1], Len(Lines(file)))
         /\ r.line = <<>> /\ r.limit = <<>>
              => r.content = file]_vars

\* C27 witness: a read with only a line returned the end of a file of
\* three lines, and a read beyond the last line is empty.
LineOnlyReadsTail ==
  /\ lastRead.op = "read"
  /\ Len(Lines(file)) = 3
  /\ lastRead.line = <<3>>
  /\ lastRead.limit = <<>>
  /\ lastRead.content = Lines(file)[3]
  /\ lastRead.content # <<>>
  /\ read_text_file(file, <<4>>, <<1>>) = <<>>

\* C28: terminalOutput on a registered terminal always returns without
\* waiting for the child: no terminalOutput request is ever held in its
\* handler, so no other request of the connection waits behind it.
TerminalOutputNeverWaits == term_call.op # "output"

\* C29: killTerminal answers Ok for every id, registered or not, with a
\* running or a dead child, each time it is repeated, and leaves the set of
\* registered terminals as it was; terminalOutput and waitForTerminalExit
\* on an id that was never created or has been released fail with code
\* -32000.
KillAlwaysSucceeds ==
  /\ [](lastTerm.op = "kill" => lastTerm.response = "ok")
  /\ [][lastTerm'.op = "kill" /\ lastTerm' # lastTerm
          => DOMAIN terminals' = DOMAIN terminals]_vars
  /\ [][lastTerm.op = "kill" /\ lastTerm'.op = "kill"
          /\ client_dropped' = client_dropped
          => DOMAIN terminals' = DOMAIN terminals]_vars
  /\ [][/\ lastTerm' # lastTerm
        /\ lastTerm'.op \in {"output", "wait"}
        /\ lastTerm'.id \in released \/ lastTerm'.id \notin DOMAIN terminals
        => lastTerm'.response = "error" /\ lastTerm'.code = -32000]_vars

\* ============================================================= Supervisor
\* acp/commands.rs (run_persistent_worker, run_resume_worker,
\* run_reconnect_worker, send_acp_prompt, handle_worker_failure),
\* acp/client.rs (AcpClient), orchestrator (cancel_worker).  One supervisor,
\* its mailbox, its agent subprocess and its cancel channel.

\* How the supervisor was started: create_acp_session, resume_acp_session or
\* reconnect_worker.
Modes == {"new", "resume", "reconnect"}

\* WorkerCommand
PromptKinds == {"Prompt", "PromptWithImages"}
RequestKinds == {"SetMode", "Authenticate"}
BreakKinds == {"Cancel", "Stop"}
CommandKinds == PromptKinds \cup RequestKinds \cup BreakKinds
\* The kinds the commands of the application post: none of them makes a
\* Cancel or a Stop.
PostedKinds == PromptKinds \cup RequestKinds

\* The supervisor services no mailbox command; id 0 is the initial prompt.
NoCmd == [id |-> NoId, kind |-> None]
InitialPrompt == [id |-> NoId, kind |-> "Prompt"]

\* AgentConfig: claude logs in out of band, every other agent is
\* authenticated by the supervisor.
Agents == {[id |-> "claude", name |-> "Claude Code"],
           [id |-> "opencode", name |-> "OpenCode"]}

\* AcpClient::spawn: no auth methods, no capabilities, no session yet.
NewConnection ==
  [auth_methods |-> FALSE, is_authenticated |-> FALSE,
   load_session |-> FALSE, image |-> FALSE, acp_session_id |-> FALSE]

\* AcpClient::supports_image: the image capability of the cached
\* capabilities, false before the initialize response.
supports_image(c) == c.image

\* The oneshot channel of a command: the kind of the command that carries
\* its sender, and what the receiver holds ("waiting" while nothing was
\* sent, "handled" once the completion task of a prompt has acted on it).
NoReply == [kind |-> None, result |-> None]
StoppedMessage == <<"Worker thread stopped unexpectedly">>

\* The content blocks of a prompt: the text first, then the images of a
\* PromptWithImages command (one image here).
ContentBlocks(kind) ==
  IF kind = "PromptWithImages" THEN <<"text", "image">> ELSE <<"text">>

\* The error messages of the supervisors, with the agent's name in them.
SpawnFailedMessage(a) == <<"Failed to spawn ", a.name>>
InitializeFailedMessage(a) == <<"ACP initialization failed for ", a.name>>
AuthenticationFailedMessage(a) == <<"Authentication failed for ", a.name>>
NoResumptionMessage(a) ==
  <<"Agent ", a.name, " does not support session resumption">>
SessionFailedMessage(m) ==
  IF m = "resume" THEN <<"Failed to load session">>
  ELSE <<"Failed to create session">>
PromptFailedMessage == <<"Prompt failed">>

\* A request on the connection and what came back; the result of a request
\* of the mailbox loop is not recorded.
Request(req, result) == [req |-> req, result |-> result]
Outcome(ok) == IF ok THEN "ok" ELSE "error"

\* OrchestratorSession::recalculate_status
recalculate_status(session) ==
  LET W == session.workers
      all_completed == \A i \in 1..Len(W) : W[i].status = "completed"
      any_failed == \E i \in 1..Len(W) : W[i].status = "failed"
      any_running == \E i \in 1..Len(W) : W[i].status = "running"
  IN IF any_failed THEN [session EXCEPT !.status = "failed"]
     ELSE IF all_completed /\ Len(W) # 0
       THEN [session EXCEPT !.status = "completed"]
     ELSE IF any_running THEN [session EXCEPT !.status = "running"]
     ELSE session

\* OrchestratorSession::update_worker_status
update_worker_status(session, i, st) ==
  recalculate_status([session EXCEPT !.workers[i].status = st])

SupInit ==
  /\ mode \in Modes
  /\ agent \in Agents
  /\ wire = <<>>
  /\ conn = NewConnection
  /\ worker_error = None
  /\ failedEvents = <<>>
  /\ pc = "start"
  /\ mailbox = <<>>
  /\ mailboxOpen = TRUE
  /\ next_cmd = 1
  /\ serving = NoCmd
  /\ requests = {}
  /\ answer = None
  /\ cancel_tx = FALSE
  /\ cancel_rx = None
  /\ process = None
  /\ killed = FALSE
  /\ status = "pending"
  /\ session_status = "running"
  /\ started = <<>>
  /\ replied = {}
  /\ accepted = 0
  /\ acpCancels = 0
  /\ cancelledEvents = 0
  /\ done_rx = [i \in 1..MaxCommands |-> NoReply]
  /\ enqueuing = [k \in PromptKinds |-> 0]
  /\ prompt_content = <<>>

\* AcpClient::kill: the kill of the subprocess has been attempted.
AfterKill(k) == TRUE

\* The AcpClient is dropped without its kill being attempted.
AfterDropNoKill(k) == k

\* impl Drop for AcpClient: start_kill on the subprocess.
AfterDrop(k) == TRUE

\* mpsc::Receiver::recv on the mailbox: the oldest command and the rest.
ReceiveNewest(q) == [head |-> q[Len(q)], rest |-> SubSeq(q, 1, Len(q) - 1)]

Receive(q) == [head |-> Head(q), rest |-> Tail(q)]

\* done_tx.send: the reply to a mailbox command (the initial prompt has no
\* reply channel).
Reply(c) == IF c.id # NoId THEN replied \cup {c.id} ELSE replied

\* The value done_tx.send puts in the channel: Ok(()) or Err(error_msg).
DoneSend(c, result) ==
  IF c.id # NoId THEN [done_rx EXCEPT ![c.id].result = result] ELSE done_rx

\* What the SetMode and Authenticate arms reply with.
RequestReplyOk(result) == "ok"

RequestReply(result) == IF result = "ok" THEN "ok" ELSE "err"

\* `return`: the supervisor is on its way out of the function; its mailbox
\* receiver and its client live until the function has returned.
ReturnEarly ==
  /\ pc' = "returning"
  /\ UNCHANGED killed

\* `break` out of the mailbox loop: client.kill() is awaited next.
ExitLoop ==
  /\ pc' = "killing"
  /\ UNCHANGED killed

\* OrchestratorManager::update_worker_status on the one worker of the
\* session: the worker's status, then the session's, recalculated from it.
UpdateWorkerStatus(st) ==
  /\ status' = st
  /\ session_status' =
       update_worker_status([status |-> session_status,
                             workers |-> <<[status |-> status]>>],
                            1, st).status

\* handle_worker_failure: the worker is marked failed with the message, its
\* cancel sender removed and the failed event emitted; the session's status
\* is not recalculated.
HandleWorkerFailure(message) ==
  /\ status' = "failed"
  /\ worker_error' = message
  /\ cancel_tx' = FALSE
  /\ failedEvents' = Append(failedEvents, message)
  /\ UNCHANGED session_status

\* The supervisor starts: the worker is registered with the InboxManager.
StartSupervisor ==
  /\ pc = "start"
  /\ RegisterWorker(TermWorker)
  /\ pc' = "mark_running"
  /\ UNCHANGED <<mode, agent, mailbox, mailboxOpen, next_cmd, done_rx,
                 enqueuing, serving, requests, answer, started, replied,
                 cancel_tx, cancel_rx, accepted, acpCancels, cancelledEvents,
                 process, killed, status, session_status, worker_error,
                 failedEvents, wire, conn, prompt_content>>

\* The worker's status is set to running and the running event emitted
\* before the agent is spawned.
MarkRunning ==
  /\ pc = "mark_running"
  /\ UpdateWorkerStatus("running")
  /\ pc' = "spawn"
  /\ UNCHANGED <<mode, agent, mailbox, mailboxOpen, next_cmd, done_rx,
                 enqueuing, serving, requests, answer, started, replied,
                 cancel_tx, cancel_rx, accepted, acpCancels, cancelledEvents,
                 process, killed, worker_error, failedEvents, wire, conn,
                 prompt_content>>

\* AcpClient::spawn: the subprocess runs and the connection has a new
\* CrafterClient, or the failure is reported and the supervisor returns.
Spawn(ok) ==
  /\ pc = "spawn"
  /\ IF ok
       THEN /\ process' = "running"
            /\ pc' = "initialize"
            /\ client_dropped' = FALSE
            /\ UNCHANGED <<status, session_status, cancel_tx, killed,
                           worker_error, failedEvents>>
       ELSE /\ HandleWorkerFailure(SpawnFailedMessage(agent))
            /\ ReturnEarly
            /\ UNCHANGED <<process, client_dropped>>
  /\ UNCHANGED <<mode, agent, mailbox, mailboxOpen, next_cmd, done_rx,
                 enqueuing, serving, requests, answer, started, replied,
                 cancel_rx, accepted, acpCancels, cancelledEvents, wire,
                 conn, prompt_content, terminals, free_pids, orphans>>

\* client.kill().await after the mailbox loop.
KillClient ==
  /\ pc = "killing"
  /\ killed' = AfterKill(killed)
  /\ pc' = "returning"
  /\ UNCHANGED <<mode, agent, mailbox, mailboxOpen, next_cmd, done_rx,
                 enqueuing, serving, requests, answer, started, replied,
                 cancel_tx, cancel_rx, accepted, acpCancels, cancelledEvents,
                 process, status, session_status, worker_error, failedEvents,
                 wire, conn, prompt_content>>

\* The supervisor's function returns: command_rx is dropped, and the client
\* too when the spawn had made one, with its connection and its terminals.
SupervisorReturns ==
  /\ pc = "returning"
  /\ pc' = "exited"
  /\ killed' = IF process = None THEN killed ELSE AfterDrop(killed)
  /\ IF process = None
       THEN UNCHANGED <<terminals, free_pids, orphans, client_dropped>>
       ELSE DropClient
  /\ UNCHANGED <<mode, agent, mailbox, mailboxOpen, next_cmd, done_rx,
                 enqueuing, serving, requests, answer, started, replied,
                 cancel_tx, cancel_rx, accepted, acpCancels, cancelledEvents,
                 process, status, session_status, worker_error, failedEvents,
                 wire, conn, prompt_content>>

\* AcpClient::initialize: the auth methods and capabilities of the response
\* are stored; without auth methods the client counts as authenticated.
Initialized(c, methods, load, image) ==
  [c EXCEPT !.auth_methods = methods, !.load_session = load,
            !.image = image,
            !.is_authenticated = c.is_authenticated \/ ~methods]

\* AcpClient::requires_authentication
requires_authentication(c) == c.auth_methods /\ ~c.is_authenticated

\* A resume supervisor that goes on without asking for the capability.
ResumeUnchecked(m, c) == TRUE

\* run_resume_worker: the agent must support load_session; the other
\* supervisors do not ask.
ResumeSupported(m, c) == m = "resume" => c.load_session

\* The load_session capability in the agent's initialize response.  Only
\* run_resume_worker reads it, so the agents of the other supervisors are
\* drawn with one value of it.
LoadCapabilities == IF mode = "resume" THEN BOOLEAN ELSE {FALSE}

\* A supervisor that never authenticates by itself.
SkipAuthentication(a, c) == FALSE

\* The supervisor authenticates by itself when authentication is required
\* and the agent is not claude.
ProgrammaticAuth(a, c) == requires_authentication(c) /\ a.id # "claude"

\* client.initialize, the capability check of a resume supervisor, and the
\* decision about authentication.
Initialize(ok, methods, load, image) ==
  /\ pc = "initialize"
  /\ wire' = Append(wire, Request("initialize", Outcome(ok)))
  /\ IF ~ok
       THEN /\ HandleWorkerFailure(InitializeFailedMessage(agent))
            /\ ReturnEarly
            /\ UNCHANGED conn
       ELSE LET c == Initialized(conn, methods, load, image)
            IN IF ~ResumeSupported(mode, c)
                 THEN /\ HandleWorkerFailure(NoResumptionMessage(agent))
                      /\ ReturnEarly
                      /\ conn' = c
                 ELSE IF ProgrammaticAuth(agent, c)
                   THEN /\ pc' = "authenticate"
                        /\ conn' = c
                        /\ UNCHANGED <<status, session_status, cancel_tx,
                                       killed, worker_error, failedEvents>>
                   ELSE /\ pc' = "open_session"
                        /\ conn' = [c EXCEPT !.is_authenticated =
                                      @ \/ requires_authentication(c)]
                        /\ UNCHANGED <<status, session_status, cancel_tx,
                                       killed, worker_error, failedEvents>>
  /\ UNCHANGED <<mode, agent, mailbox, mailboxOpen, next_cmd, done_rx,
                 enqueuing, serving, requests, answer, started, replied,
                 cancel_rx, accepted, acpCancels, cancelledEvents, process,
                 prompt_content>>

\* client.authenticate with the first offered method; a failure is fatal.
StartupAuthenticate(ok) ==
  /\ pc = "authenticate"
  /\ wire' = Append(wire, Request("authenticate", Outcome(ok)))
  /\ IF ok
       THEN /\ conn' = [conn EXCEPT !.is_authenticated = TRUE]
            /\ pc' = "open_session"
            /\ UNCHANGED <<status, session_status, cancel_tx, killed,
                           worker_error, failedEvents>>
       ELSE /\ HandleWorkerFailure(AuthenticationFailedMessage(agent))
            /\ ReturnEarly
            /\ UNCHANGED conn
  /\ UNCHANGED <<mode, agent, mailbox, mailboxOpen, next_cmd, done_rx,
                 enqueuing, serving, requests, answer, started, replied,
                 cancel_rx, accepted, acpCancels, cancelledEvents, process,
                 prompt_content>>

\* The request create_acp_session or load_acp_session sends;
\* load_acp_session sends nothing when the capability is missing.
SessionWire(w, m, c, ok) ==
  IF m = "resume"
    THEN IF c.load_session THEN Append(w, Request("loadSession", Outcome(ok)))
         ELSE w
    ELSE Append(w, Request("newSession", Outcome(ok)))

\* create_acp_session (new, reconnect) or load_acp_session (resume).  A new
\* supervisor goes on to its initial prompt; the other two report completed
\* and enter the mailbox loop.
OpenSession(ok) ==
  /\ pc = "open_session"
  /\ IF ~ok \/ (mode = "resume" /\ ~conn.load_session)
       THEN /\ HandleWorkerFailure(SessionFailedMessage(mode))
            /\ ReturnEarly
            /\ wire' = SessionWire(wire, mode, conn, FALSE)
            /\ UNCHANGED <<serving, conn>>
       ELSE /\ conn' = [conn EXCEPT !.acp_session_id = TRUE]
            /\ wire' = SessionWire(wire, mode, conn, TRUE)
            /\ IF mode = "new"
                 THEN /\ serving' = InitialPrompt
                      /\ pc' = "register"
                      /\ UNCHANGED <<status, session_status, cancel_tx,
                                     killed, worker_error, failedEvents>>
                 ELSE /\ UpdateWorkerStatus("completed")
                      /\ pc' = "idle"
                      /\ UNCHANGED <<serving, cancel_tx, killed, worker_error,
                                     failedEvents>>
  /\ UNCHANGED <<mode, agent, mailbox, mailboxOpen, next_cmd, done_rx,
                 enqueuing, requests, answer, started, replied, cancel_rx,
                 accepted, acpCancels, cancelledEvents, process,
                 prompt_content>>

\* register_worker_cancel with the sender of a fresh channel, in a lock
\* section of its own before the prompt.
RegisterCancel ==
  /\ pc = "register"
  /\ cancel_tx' = TRUE
  /\ cancel_rx' = "empty"
  /\ pc' = "poll"
  /\ UNCHANGED <<mode, agent, mailbox, mailboxOpen, next_cmd, done_rx,
                 enqueuing, serving, requests, answer, started, replied,
                 accepted, acpCancels, cancelledEvents, process, killed,
                 status, session_status, worker_error, failedEvents, wire,
                 conn, prompt_content>>

\* prompt_with_content: the prompt request goes out only when the client
\* holds a session id and the select! polls the request's branch.
PromptWire(w, session, sent) ==
  IF session /\ sent THEN Append(w, Request("prompt", "sent")) ELSE w

\* client.prompt up to the first poll of its select!.  Without a session
\* the prompt fails at once.  With a cancel message already in the channel
\* the cancel branch is taken in that poll, after the request was sent or
\* before (the branches are polled in random order), and the ACP cancel
\* notification goes out.  Otherwise the request is sent and awaited.
StartPrompt(sent) ==
  /\ pc = "poll"
  /\ wire' = PromptWire(wire, conn.acp_session_id, sent)
  /\ prompt_content' = IF conn.acp_session_id /\ sent
                         THEN ContentBlocks(serving.kind)
                         ELSE prompt_content
  /\ IF ~conn.acp_session_id
       THEN /\ ~sent
            /\ answer' = "error"
            /\ pc' = "prompting"
            /\ UNCHANGED <<requests, cancel_rx, acpCancels>>
       ELSE IF cancel_rx = "message"
         THEN /\ acpCancels' = acpCancels + 1
              /\ cancel_rx' = None
              /\ pc' = "cancelling"
              /\ UNCHANGED <<requests, answer>>
         ELSE /\ sent
              /\ requests' = requests \cup {serving.id}
              /\ answer' = None
              /\ pc' = "prompting"
              /\ UNCHANGED <<cancel_rx, acpCancels>>
  /\ UNCHANGED <<mode, agent, mailbox, mailboxOpen, next_cmd, done_rx,
                 enqueuing, serving, started, replied, cancel_tx, accepted,
                 cancelledEvents, process, killed, status, session_status,
                 worker_error, failedEvents, conn>>

\* The agent answers the request in flight (or the connection fails it).
AgentResponds(result) ==
  /\ pc \in {"prompting", "requesting"}
  /\ answer = None
  /\ answer' = result
  /\ UNCHANGED <<mode, agent, pc, mailbox, mailboxOpen, next_cmd, done_rx,
                 enqueuing, serving, requests, started, replied, cancel_tx,
                 cancel_rx, accepted, acpCancels, cancelledEvents, process,
                 killed, status, session_status, worker_error, failedEvents,
                 wire, conn, prompt_content>>

\* prompt_with_content, the select! branch of the prompt's completion, and
\* the first lock section of the supervisor's arm.  Ok: the status is set
\* to completed and the cancel sender removed.  Err(e) of the initial
\* prompt: handle_worker_failure and return.  Err(e) of a mailbox prompt:
\* the cancel sender is removed; the reply and the failure follow.
PromptCompletes ==
  /\ pc = "prompting"
  /\ answer # None
  /\ requests' = requests \ {serving.id}
  /\ cancel_rx' = None
  /\ IF answer = "ok"
       THEN /\ UpdateWorkerStatus("completed")
            /\ cancel_tx' = FALSE
            /\ UNCHANGED <<killed, worker_error, failedEvents>>
            /\ IF serving.id = NoId
                 THEN pc' = "idle" /\ serving' = NoCmd /\ answer' = None
                 ELSE pc' = "reply" /\ UNCHANGED <<serving, answer>>
       ELSE IF serving.id = NoId
         THEN /\ HandleWorkerFailure(PromptFailedMessage)
              /\ ReturnEarly
              /\ serving' = NoCmd
              /\ answer' = None
         ELSE /\ cancel_tx' = FALSE
              /\ pc' = "reply"
              /\ UNCHANGED <<serving, answer, killed, status, session_status,
                             worker_error, failedEvents>>
  /\ UNCHANGED <<mode, agent, mailbox, mailboxOpen, next_cmd, done_rx,
                 enqueuing, started, replied, accepted, acpCancels,
                 cancelledEvents, process, wire, conn, prompt_content>>

\* done_tx.send of a mailbox prompt: Ok(()) when the prompt completed or
\* was cancelled, Err(error_msg) when it failed.  A completed prompt goes
\* back to the mailbox, a cancelled one breaks, a failed one is recorded
\* next.
ReplyPrompt ==
  /\ pc = "reply"
  /\ replied' = Reply(serving)
  /\ done_rx' = DoneSend(serving, IF answer = "error" THEN "err" ELSE "ok")
  /\ CASE answer = "ok" ->
            /\ pc' = "idle"
            /\ serving' = NoCmd
            /\ answer' = None
            /\ UNCHANGED killed
       [] answer = "error" ->
            /\ pc' = "record_failure"
            /\ UNCHANGED <<serving, answer, killed>>
       [] OTHER ->
            /\ ExitLoop
            /\ UNCHANGED <<serving, answer>>
  /\ UNCHANGED <<mode, agent, mailbox, mailboxOpen, next_cmd, enqueuing,
                 requests, started, cancel_tx, cancel_rx, accepted,
                 acpCancels, cancelledEvents, process, status,
                 session_status, worker_error, failedEvents, wire, conn,
                 prompt_content>>

\* The Err(e) arm of a mailbox prompt after its reply: handle_worker_failure
\* and break.
RecordFailure ==
  /\ pc = "record_failure"
  /\ HandleWorkerFailure(PromptFailedMessage)
  /\ ExitLoop
  /\ serving' = NoCmd
  /\ answer' = None
  /\ UNCHANGED <<mode, agent, mailbox, mailboxOpen, next_cmd, done_rx,
                 enqueuing, requests, started, replied, cancel_rx, accepted,
                 acpCancels, cancelledEvents, process, wire, conn,
                 prompt_content>>

\* prompt_with_content, the select! branch of cancel_rx.recv(): the prompt
\* request is dropped and the ACP cancel notification sent on the
\* connection; prompt() returns Err(Cancelled) once that send has been
\* awaited.
CancelBranch ==
  /\ pc = "prompting"
  /\ cancel_rx = "message"
  /\ acpCancels' = acpCancels + 1
  /\ cancel_rx' = None
  /\ requests' = requests \ {serving.id}
  /\ pc' = "cancelling"
  /\ UNCHANGED <<mode, agent, mailbox, mailboxOpen, next_cmd, done_rx,
                 enqueuing, serving, answer, started, replied, cancel_tx,
                 accepted, cancelledEvents, process, killed, status,
                 session_status, worker_error, failedEvents, wire, conn,
                 prompt_content>>

\* The supervisor's Err(Cancelled) arm: the status is set to cancelled and
\* the cancel sender removed in one lock section, and the cancelled event
\* emitted; the initial prompt then returns, a mailbox prompt replies.
PromptCancelled ==
  /\ pc = "cancelling"
  /\ UpdateWorkerStatus("cancelled")
  /\ cancel_tx' = FALSE
  /\ cancelledEvents' = cancelledEvents + 1
  /\ IF serving.id = NoId
       THEN ReturnEarly /\ UNCHANGED answer
       ELSE pc' = "reply" /\ answer' = "cancelled" /\ UNCHANGED killed
  /\ UNCHANGED <<mode, agent, mailbox, mailboxOpen, next_cmd, done_rx,
                 enqueuing, serving, requests, started, replied, cancel_rx,
                 accepted, acpCancels, process, worker_error, failedEvents,
                 wire, conn, prompt_content>>

\* The request the SetMode and Authenticate arms send.
MailboxRequest(kind) ==
  IF kind = "SetMode" THEN "setSessionMode" ELSE "authenticate"

\* command_rx.recv() returned Some(cmd): the arm of the command's kind, up
\* to its first await or the end of its first lock section.  A prompt sets
\* the status to running; SetMode and Authenticate send their request.
ReceiveCommand ==
  /\ pc = "idle"
  /\ mailbox # <<>>
  /\ LET c == Receive(mailbox).head
     IN /\ mailbox' = Receive(mailbox).rest
        /\ started' = Append(started, c.id)
        /\ CASE c.kind \in PromptKinds ->
                  /\ UpdateWorkerStatus("running")
                  /\ serving' = c
                  /\ pc' = "register"
                  /\ UNCHANGED <<requests, answer, wire, killed>>
             [] c.kind \in RequestKinds ->
                  /\ requests' = requests \cup {c.id}
                  /\ answer' = None
                  /\ serving' = c
                  /\ pc' = "requesting"
                  /\ wire' = Append(wire, Request(MailboxRequest(c.kind),
                                                  "sent"))
                  /\ UNCHANGED <<status, session_status, killed>>
             [] OTHER ->
                  /\ ExitLoop
                  /\ UNCHANGED <<status, session_status, serving, requests,
                                 answer, wire>>
  /\ UNCHANGED <<mode, agent, mailboxOpen, next_cmd, done_rx, enqueuing,
                 replied, cancel_tx, cancel_rx, accepted, acpCancels,
                 cancelledEvents, process, worker_error, failedEvents, conn,
                 prompt_content>>

\* The SetMode and Authenticate arms: the reply is sent whatever the
\* result, and the loop goes on.
RequestCompletes ==
  /\ pc = "requesting"
  /\ answer # None
  /\ requests' = requests \ {serving.id}
  /\ replied' = Reply(serving)
  /\ done_rx' = DoneSend(serving, RequestReply(answer))
  /\ answer' = None
  /\ serving' = NoCmd
  /\ pc' = "idle"
  /\ conn' = IF serving.kind = "Authenticate" /\ answer = "ok"
               THEN [conn EXCEPT !.is_authenticated = TRUE] ELSE conn
  /\ UNCHANGED <<mode, agent, mailbox, mailboxOpen, next_cmd, enqueuing,
                 started, cancel_tx, cancel_rx, accepted, acpCancels,
                 cancelledEvents, process, killed, status, session_status,
                 worker_error, failedEvents, wire, prompt_content>>

\* The send_acp_prompt and send_acp_prompt_with_images calls that hold a
\* clone of the mailbox's sender and have not sent their command yet.
Enqueuing == enqueuing["Prompt"] + enqueuing["PromptWithImages"]

\* command_rx.recv() returned None: every sender is gone and the mailbox is
\* empty.
MailboxClosed ==
  /\ pc = "idle"
  /\ mailbox = <<>>
  /\ ~mailboxOpen
  /\ Enqueuing = 0
  /\ ExitLoop
  /\ UNCHANGED <<mode, agent, mailbox, mailboxOpen, next_cmd, done_rx,
                 enqueuing, serving, requests, answer, started, replied,
                 cancel_tx, cancel_rx, accepted, acpCancels, cancelledEvents,
                 process, status, session_status, worker_error, failedEvents,
                 wire, conn, prompt_content>>

\* send_acp_prompt and send_acp_prompt_with_images up to their send: the
\* sender is cloned from the worker handle, the session's and the worker's
\* status are set to running in one lock section and the running event is
\* emitted.
ReportRunning(kind) ==
  /\ mailboxOpen
  /\ next_cmd + Enqueuing <= MaxCommands
  /\ session_status' = "running"
  /\ status' = "running"
  /\ enqueuing' = [enqueuing EXCEPT ![kind] = @ + 1]
  /\ UNCHANGED <<mode, agent, pc, mailbox, mailboxOpen, next_cmd, done_rx,
                 serving, requests, answer, started, replied, cancel_tx,
                 cancel_rx, accepted, acpCancels, cancelledEvents, process,
                 killed, worker_error, failedEvents, wire, conn,
                 prompt_content>>

\* command_tx.send: the command is posted to the mailbox by a prompt call
\* that has reported running, by set_acp_session_mode or by
\* authenticate_acp_session.  The send fails once the supervisor has
\* dropped its receiver.
Enqueue(kind) ==
  /\ IF kind \in PromptKinds
       THEN /\ enqueuing[kind] > 0
            /\ enqueuing' = [enqueuing EXCEPT ![kind] = @ - 1]
       ELSE /\ mailboxOpen
            /\ next_cmd + Enqueuing <= MaxCommands
            /\ UNCHANGED enqueuing
  /\ IF pc # "exited"
       THEN /\ mailbox' = Append(mailbox, [id |-> next_cmd, kind |-> kind])
            /\ next_cmd' = next_cmd + 1
            /\ done_rx' = [done_rx EXCEPT ![next_cmd] =
                             [kind |-> kind, result |-> "waiting"]]
       ELSE UNCHANGED <<mailbox, next_cmd, done_rx>>
  /\ UNCHANGED <<mode, agent, pc, mailboxOpen, serving, requests, answer,
                 started, replied, cancel_tx, cancel_rx, accepted, acpCancels,
                 cancelledEvents, process, killed, status, session_status,
                 worker_error, failedEvents, wire, conn, prompt_content>>

\* The supervisor has returned while the command was still queued: the
\* receiver of the mailbox is dropped and the command's done_tx with it.
SenderDropped(id) ==
  pc = "exited" /\ \E i \in 1..Len(mailbox) : mailbox[i].id = id

\* The task send_acp_prompt and send_acp_prompt_with_images spawn to await
\* done_rx: Ok(Ok(())) needs nothing, Ok(Err(e)) and a closed channel go
\* through handle_worker_failure.
CompletionTask(id) ==
  /\ done_rx[id].kind \in PromptKinds
  /\ IF done_rx[id].result = "err"
       THEN HandleWorkerFailure(PromptFailedMessage)
       ELSE /\ done_rx[id].result = "waiting"
            /\ SenderDropped(id)
            /\ HandleWorkerFailure(StoppedMessage)
  /\ done_rx' = [done_rx EXCEPT ![id].result = "handled"]
  /\ UNCHANGED <<mode, agent, pc, mailbox, mailboxOpen, next_cmd, enqueuing,
                 serving, requests, answer, started, replied, cancel_rx,
                 accepted, acpCancels, cancelledEvents, process, killed,
                 wire, conn, prompt_content>>

\* The worker handle, which holds the mailbox's sender, is dropped.
DropHandles ==
  /\ mailboxOpen
  /\ mailboxOpen' = FALSE
  /\ UNCHANGED <<mode, agent, pc, mailbox, next_cmd, done_rx, enqueuing,
                 serving, requests, answer, started, replied, cancel_tx,
                 cancel_rx, accepted, acpCancels, cancelledEvents, process,
                 killed, status, session_status, worker_error, failedEvents,
                 wire, conn, prompt_content>>

\* The cancel_worker command: OrchestratorManager::cancel_worker removes the
\* sender and try_sends on it; accepted means the command returns Ok, having
\* set the status to cancelled in the same lock section.
CancelWorker ==
  /\ IF cancel_tx
       THEN /\ cancel_tx' = FALSE
            /\ cancel_rx' = IF cancel_rx = "empty" THEN "message"
                            ELSE cancel_rx
            /\ accepted' = accepted + 1
            /\ UpdateWorkerStatus("cancelled")
       ELSE UNCHANGED <<cancel_tx, cancel_rx, accepted, status,
                        session_status>>
  /\ UNCHANGED <<mode, agent, pc, mailbox, mailboxOpen, next_cmd, done_rx,
                 enqueuing, serving, requests, answer, started, replied,
                 acpCancels, cancelledEvents, process, killed, worker_error,
                 failedEvents, wire, conn, prompt_content>>

\* No reconnect_worker call has been made.
NoCalls == [k \in 1..MaxReconnects |-> "idle"]

\* What belongs to one supervisor: its mailbox with the senders and the
\* reply channels of its commands, its position, its client with the
\* connection and the agent subprocess, the receiver of its cancel channel
\* and the call that started it.  The worker's and the session's status,
\* the worker's entry in active_workers and the events are the session's.
SupervisorLocals ==
  [mode |-> mode, pc |-> pc, mailbox |-> mailbox,
   mailboxOpen |-> mailboxOpen, next_cmd |-> next_cmd, done_rx |-> done_rx,
   enqueuing |-> enqueuing, serving |-> serving, requests |-> requests,
   answer |-> answer, cancel_rx |-> cancel_rx, process |-> process,
   killed |-> killed, started |-> started, replied |-> replied,
   wire |-> wire, conn |-> conn, prompt_content |-> prompt_content,
   client_dropped |-> client_dropped, owner |-> owner]

\* The supervisor reconnect_worker call k starts: run_reconnect_worker on a
\* thread of its own, with a fresh mailbox whose sender is in the handle.
ReconnectSupervisor(k) ==
  [mode |-> "reconnect", pc |-> "start", mailbox |-> <<>>,
   mailboxOpen |-> TRUE, next_cmd |-> 1,
   done_rx |-> [i \in 1..MaxCommands |-> NoReply],
   enqueuing |-> [kind \in PromptKinds |-> 0], serving |-> NoCmd,
   requests |-> {}, answer |-> None, cancel_rx |-> None, process |-> None,
   killed |-> FALSE, started |-> <<>>, replied |-> {}, wire |-> <<>>,
   conn |-> NewConnection, prompt_content |-> <<>>,
   client_dropped |-> FALSE, owner |-> k]

\* The supervisor s is the one whose thread runs next.
RunSupervisor(s) ==
  /\ mode' = s.mode
  /\ pc' = s.pc
  /\ mailbox' = s.mailbox
  /\ mailboxOpen' = s.mailboxOpen
  /\ next_cmd' = s.next_cmd
  /\ done_rx' = s.done_rx
  /\ enqueuing' = s.enqueuing
  /\ serving' = s.serving
  /\ requests' = s.requests
  /\ answer' = s.answer
  /\ cancel_rx' = s.cancel_rx
  /\ process' = s.process
  /\ killed' = s.killed
  /\ started' = s.started
  /\ replied' = s.replied
  /\ wire' = s.wire
  /\ conn' = s.conn
  /\ prompt_content' = s.prompt_content
  /\ client_dropped' = s.client_dropped
  /\ owner' = s.owner
  /\ UNCHANGED <<status, session_status, accepted, acpCancels,
                 cancelledEvents, agent, worker_error, failedEvents,
                 cancel_tx>>

\* The supervisors that still run when the one that runs next is set
\* aside: a supervisor that has returned and whose mailbox no handle
\* points to is gone.
SetAside(others) ==
  IF pc = "exited" /\ ~mailboxOpen THEN others
  ELSE Append(others, SupervisorLocals)

\* handles.insert(session_id, ..) replaces the session's handle: the
\* sender it held is dropped.  Of the supervisors there were, those that
\* have not returned go on.
HandleReplaced(others) ==
  LET running == SelectSeq(others, LAMBDA s : s.pc # "exited")
  IN [i \in DOMAIN running |-> [running[i] EXCEPT !.mailboxOpen = FALSE]]

\* worker_handles holds a handle for the session.
HasHandle == mailboxOpen \/ \E i \in DOMAIN displaced : displaced[i].mailboxOpen

\* reconnect_worker, its first lock section: with a handle for the session
\* in worker_handles the command returns Ok at once (`Already connected`);
\* without one it goes on.  Nothing removes a handle when a supervisor
\* returns.
ReconnectWorker(k) ==
  /\ reconnects[k] = "idle"
  /\ \A j \in 1..(k - 1) : reconnects[j] # "idle"
  /\ reconnects' = [reconnects EXCEPT ![k] =
                       IF HasHandle THEN "done" ELSE "tested"]
  /\ UNCHANGED <<supVars, displaced, owner>>

\* reconnect_worker after its test: the session's first worker is taken
\* for the supervisor (the session has one), a handle with the sender of a
\* fresh mailbox is inserted in worker_handles, replacing the handle
\* another call has inserted since the test, and run_reconnect_worker is
\* started on a new thread, with no initial prompt.  The calls are alike:
\* of those that stand after their test the first one is taken.
ReconnectInsert(k) ==
  /\ reconnects[k] = "tested"
  /\ \A j \in 1..(k - 1) : reconnects[j] # "tested"
  /\ reconnects' = [reconnects EXCEPT ![k] = "sleeping"]
  /\ displaced' = HandleReplaced(Append(displaced, SupervisorLocals))
  /\ RunSupervisor(ReconnectSupervisor(k))

\* reconnect_worker returns Ok after its sleep of 500 ms: the command's
\* own sender of the mailbox is dropped.
ReconnectReturns(k) ==
  /\ reconnects[k] = "sleeping"
  /\ reconnects' = [reconnects EXCEPT ![k] = "done"]
  /\ UNCHANGED <<supVars, displaced, owner>>

\* The call that started the supervisor has returned, or no call started
\* it: the call holds no sender of its mailbox.
OwnerReturned == owner \in DOMAIN reconnects => reconnects[owner] = "done"

\* The operating system runs the thread of another supervisor.
SwitchSupervisor(i) ==
  /\ i \in DOMAIN displaced
  /\ displaced' = SetAside([j \in 1..(Len(displaced) - 1) |->
                              IF j < i THEN displaced[j]
                              ELSE displaced[j + 1]])
  /\ RunSupervisor(displaced[i])
  /\ UNCHANGED reconnects

\* The operator posts its commands once the reconnect_worker calls it has
\* made have returned, and the supervisors they displaced too.
Settled ==
  /\ displaced = <<>>
  /\ \A k \in 1..MaxReconnects : reconnects[k] \in {"idle", "done"}

SupNext ==
  \/ StartSupervisor /\ SupInboxFrame
  \/ MarkRunning /\ SupFrame
  \/ \E ok \in BOOLEAN : Spawn(ok) /\ ClientFrame
  \/ \E ok, methods, image \in BOOLEAN, load \in LoadCapabilities :
       Initialize(ok, methods, load, image) /\ SupFrame
  \/ \E ok \in BOOLEAN : StartupAuthenticate(ok) /\ SupFrame
  \/ \E ok \in BOOLEAN : OpenSession(ok) /\ SupFrame
  \/ RegisterCancel /\ SupFrame
  \/ \E sent \in BOOLEAN : StartPrompt(sent) /\ SupFrame
  \/ \E result \in {"ok", "error"} : AgentResponds(result) /\ SupFrame
  \/ PromptCompletes /\ SupFrame
  \/ ReplyPrompt /\ SupFrame
  \/ RecordFailure /\ SupFrame
  \/ CancelBranch /\ SupFrame
  \/ PromptCancelled /\ SupFrame
  \/ KillClient /\ SupFrame
  \/ SupervisorReturns /\ ClientFrame
  \/ ReceiveCommand /\ SupFrame
  \/ RequestCompletes /\ SupFrame
  \/ MailboxClosed /\ SupFrame
  \/ \E kind \in PromptKinds : ReportRunning(kind) /\ SupFrame
  \/ \E kind \in PostedKinds : Enqueue(kind) /\ SupFrame
  \/ \E id \in 1..MaxCommands : CompletionTask(id) /\ SupFrame
  \/ DropHandles /\ SupFrame
  \/ CancelWorker /\ SupFrame

\* A session without a handle, its reconnect_worker calls, the
\* supervisors they start and the operator while the application runs: a
\* handle stays in worker_handles, and a mailbox closes only when another
\* call replaces its handle.
ReconnectNext ==
  \/ StartSupervisor /\ SupInboxFrame
  \/ MarkRunning /\ SupFrame
  \/ \E ok \in BOOLEAN : Spawn(ok) /\ ClientFrame
  \/ \E ok, methods, image \in BOOLEAN, load \in LoadCapabilities :
       Initialize(ok, methods, load, image) /\ SupFrame
  \/ \E ok \in BOOLEAN : StartupAuthenticate(ok) /\ SupFrame
  \/ \E ok \in BOOLEAN : OpenSession(ok) /\ SupFrame
  \/ RegisterCancel /\ SupFrame
  \/ \E sent \in BOOLEAN : StartPrompt(sent) /\ SupFrame
  \/ \E result \in {"ok", "error"} : AgentResponds(result) /\ SupFrame
  \/ PromptCompletes /\ SupFrame
  \/ ReplyPrompt /\ SupFrame
  \/ RecordFailure /\ SupFrame
  \/ CancelBranch /\ SupFrame
  \/ PromptCancelled /\ SupFrame
  \/ KillClient /\ SupFrame
  \/ SupervisorReturns /\ ClientFrame
  \/ ReceiveCommand /\ SupFrame
  \/ RequestCompletes /\ SupFrame
  \/ OwnerReturned /\ MailboxClosed /\ SupFrame
  \/ \E kind \in PromptKinds : Settled /\ ReportRunning(kind) /\ SupFrame
  \/ \E kind \in PostedKinds : Settled /\ Enqueue(kind) /\ SupFrame
  \/ \E id \in 1..MaxCommands : CompletionTask(id) /\ SupFrame
  \/ CancelWorker /\ SupFrame
  \/ \E k \in 1..MaxReconnects : ReconnectWorker(k) /\ ReconnectFrame
  \/ \E k \in 1..MaxReconnects : ReconnectInsert(k) /\ ReconnectClientFrame
  \/ \E k \in 1..MaxReconnects : ReconnectReturns(k) /\ ReconnectFrame
  \/ \E i \in 1..MaxReconnects :
       SwitchSupervisor(i) /\ ReconnectClientFrame

\* C6: when a cancel of the worker was accepted while a prompt was in
\* flight, exactly one ACP cancel notification has been sent and exactly one
\* cancelled status event emitted by the time the supervisor has exited.
AcceptedCancelIsObserved ==
  (pc = "exited" /\ accepted = 1)
    => (acpCancels = 1 /\ cancelledEvents = 1)

\* C7: mailbox commands are serviced in the order they were enqueued (ids
\* are given in enqueue order), a command is started only after every
\* earlier one has been replied to, and at most one request is outstanding
\* on the connection.
MailboxFifoOneAtATime ==
  /\ \A i \in 1..Len(started) : started[i] = i
  /\ \A i \in 1..(Len(started) - 1) : started[i] \in replied
  /\ Cardinality(requests) <= 1

\* C7 witness: the second command is a prompt in flight, the first one has
\* been replied to and a third waits in the mailbox.
SecondPromptInFlight ==
  /\ pc = "prompting"
  /\ Len(started) = 2
  /\ 1 \in replied
  /\ requests = {2}
  /\ mailbox # <<>>

\* C8: a supervisor that has stopped after its agent was spawned has
\* attempted to kill the subprocess.
ExitedSupervisorKilledAgent ==
  (pc = "exited" /\ process = "running") => killed

\* C8 witness: the supervisor left by the early return of a cancelled
\* initial prompt, and the kill was attempted.
CancelledInitialPromptKilled ==
  /\ pc = "exited"
  /\ process = "running"
  /\ started = <<>>
  /\ cancelledEvents = 1
  /\ killed

\* C12: a resume supervisor whose agent answered initialize without the
\* loadSession capability is returning or has exited (with its subprocess
\* killed), its worker marked failed with the message "Agent <name> does
\* not support session resumption", the failed event emitted with that
\* message, and initialize the only request sent: no loadSession ever goes
\* out.
ResumeWithoutLoadSessionFails ==
  /\ [](mode = "resume" /\ wire # <<>> /\ wire[1].result = "ok"
          /\ ~conn.load_session
        => /\ pc \in {"returning", "exited"}
           /\ failedEvents # <<>>
           /\ failedEvents[1] =
                <<"Agent ", agent.name, " does not support session resumption">>
           /\ wire = <<Request("initialize", "ok")>>
           /\ pc = "exited" => killed)
  /\ [][mode = "resume" /\ wire = <<>> /\ wire' # <<>>
          /\ wire'[1].result = "ok" /\ ~conn'.load_session
        => /\ status' = "failed"
           /\ worker_error' =
                <<"Agent ", agent.name, " does not support session resumption">>
           /\ failedEvents' = <<worker_error'>>]_vars

\* C12 witness: OpenCode, resumed, initialized without the capability, has
\* failed with the message and exited.
ResumeRefused ==
  /\ mode = "resume"
  /\ agent.name = "OpenCode"
  /\ wire = <<Request("initialize", "ok")>>
  /\ ~conn.load_session
  /\ pc = "exited"
  /\ failedEvents =
       <<(<<"Agent ", "OpenCode", " does not support session resumption">>)>>

\* C13: the requests of a supervisor follow the lifecycle: initialize is
\* the first; authenticate comes only after a successful initialize; a
\* session request comes only after a successful initialize and, when the
\* agent offers auth methods and is authenticated by the supervisor, after
\* a successful authenticate; a prompt comes only after a session request
\* succeeded; and a failed startup request is the last request, with the
\* worker marked failed (a failed spawn sends no request at all).
RequestsFollowLifecycle ==
  /\ [](LET N == 1..Len(wire)
            Sent(n) == {i \in N : wire[i].req = n}
            Ok(n) == {i \in N : wire[i] = Request(n, "ok")}
            Before(S, i) == \E j \in S : j < i
        IN /\ wire # <<>> => wire[1].req = "initialize"
           /\ \A i \in Sent("authenticate") : Before(Ok("initialize"), i)
           /\ \A i \in Sent("newSession") \cup Sent("loadSession") :
                /\ Before(Ok("initialize"), i)
                /\ conn.auth_methods /\ agent.id # "claude"
                     => Before(Ok("authenticate"), i)
           /\ \A i \in Sent("prompt") \cup Sent("setSessionMode") :
                Before(Ok("newSession") \cup Ok("loadSession"), i)
           /\ \A i \in N :
                wire[i].result = "error"
                  => /\ i = Len(wire)
                     /\ pc \in {"returning", "exited"}
                     /\ failedEvents # <<>>
           /\ pc = "exited" /\ process = None
                => wire = <<>> /\ failedEvents # <<>>)
  /\ [][/\ Len(wire') > Len(wire) /\ wire'[Len(wire')].result = "error"
             => /\ status' = "failed"
                /\ worker_error' # None
                /\ failedEvents' = <<worker_error'>>
        /\ process' = None /\ pc = "spawn" /\ pc' = "returning"
             => /\ status' = "failed"
                /\ worker_error' # None
                /\ failedEvents' = <<worker_error'>>]_vars

\* C13 witness: an agent the supervisor authenticates went through
\* initialize, authenticate and newSession before its first prompt.
FullLifecycleBeforePrompt ==
  /\ agent.id = "opencode"
  /\ conn.auth_methods
  /\ wire = <<Request("initialize", "ok"), Request("authenticate", "ok"),
              Request("newSession", "ok"), Request("prompt", "sent")>>

\* The messages of the worker-fatal errors of a supervisor.
FatalMessages ==
  {SpawnFailedMessage(agent), InitializeFailedMessage(agent),
   AuthenticationFailedMessage(agent), NoResumptionMessage(agent),
   SessionFailedMessage(mode), PromptFailedMessage}

\* C24: every worker-fatal error (spawn, initialize, authenticate, session
\* open or load, prompt failure) marks the worker failed with the error
\* message, unregisters the worker's cancel channel and emits the failed
\* event for it; and no fatal error is reported by more than one failed
\* event.
FatalErrorReportedOnce ==
  /\ [][(/\ pc' \in {"returning", "killing"}
          /\ \/ pc \in {"spawn", "initialize", "authenticate",
                         "open_session", "record_failure"}
             \/ pc = "prompting" /\ answer = "error")
         => /\ status' = "failed"
            /\ worker_error' \in FatalMessages
            /\ cancel_tx' = FALSE
            /\ failedEvents' = Append(failedEvents, worker_error')]_vars
  /\ [](\A i, j \in 1..Len(failedEvents) :
          failedEvents[i] \in FatalMessages
          /\ failedEvents[i] = failedEvents[j] => i = j)

\* C25: when a SetMode or Authenticate command fails, the error is sent on
\* that command's reply, the supervisor goes back to its mailbox with the
\* agent and the connection as they were, the worker's status is unchanged,
\* no failure is reported and the commands queued behind it stay queued
\* for service.
FailedRequestIsNotFatal ==
  [][pc = "requesting" /\ answer = "error" /\ pc' # "requesting"
     => /\ done_rx'[serving.id].result = "err"
        /\ replied' = replied \cup {serving.id}
        /\ pc' = "idle"
        /\ killed' = killed
        /\ process' = process
        /\ conn' = conn
        /\ status' = status
        /\ worker_error' = worker_error
        /\ failedEvents' = failedEvents
        /\ mailbox' = mailbox]_vars

\* C25 witness: a command enqueued behind a failed SetMode or Authenticate
\* has been taken from the mailbox and serviced.
CommandServicedAfterFailedRequest ==
  \E i \in 1..Len(started) :
    /\ i < Len(started)
    /\ done_rx[started[i]].kind \in RequestKinds
    /\ done_rx[started[i]].result = "err"
    /\ started[Len(started)] \in replied
    /\ ~killed

\* C26: the last prompt request sent to the agent holds an image content
\* block only if the capabilities cached from the agent's initialize
\* response say it accepts images.
ImagesOnlyIfCapable ==
  (\E i \in 1..Len(prompt_content) : prompt_content[i] = "image")
    => supports_image(conn)

\* ============================================================ Permissions
\* acp/client.rs (PERMISSION_CHANNELS, send_permission_response,
\* CrafterClient::request_permission).

\* PermissionOptionKind
AllowKinds == {"allow_once", "allow_always"}
RejectKinds == {"reject_once", "reject_always"}

Option(id, kind) == [id |-> id, kind |-> kind]

\* The option lists an agent offers in the model; ids are distinct within a
\* list, and an agent is free to name an option "allow_once".
OptionLists ==
  {<<>>,
   <<Option("a", "allow_once"), Option("b", "reject_once")>>,
   <<Option("b", "reject_once"), Option("a", "allow_always"),
     Option("c", "allow_once")>>,
   <<Option("allow_once", "reject_once")>>}

\* The option ids the operator may answer with.
OperatorIds == {"a", "b"}

\* RequestPermissionOutcome::Selected
Selected(id) == [kind |-> "selected", id |-> id]

\* options.iter().find(kind is AllowOnce | AllowAlways): the id of the
\* first such option, None when there is none.
RECURSIVE FindAllow(_)
FindAllow(options) ==
  IF options = <<>> THEN None
  ELSE IF Head(options).kind \in AllowKinds THEN Head(options).id
  ELSE FindAllow(Tail(options))

\* The auto-approval of the closed-channel and timeout arms.
AutoApprove(options) ==
  Selected(IF FindAllow(options) # None THEN FindAllow(options)
           ELSE "allow_once")

NoOutcome == [kind |-> None, id |-> None]

PermInit ==
  /\ permRequests = <<>>
  /\ channels = [w \in Workers |-> NoId]
  /\ next_req = 1
  /\ lastRespond = None

\* request_permission up to its wait: a fresh oneshot channel whose sender
\* takes the worker's slot; the sender it replaces is dropped, which closes
\* the channel of the request that was waiting on it.
RequestPermission(w, options) ==
  /\ next_req <= MaxRequests
  /\ permRequests' =
       [r \in DOMAIN permRequests \cup {next_req} |->
          IF r = next_req
            THEN [worker |-> w, options |-> options, state |-> "waiting",
                  chan |-> "open", value |-> None, via |-> None,
                  outcome |-> NoOutcome]
          ELSE IF r = channels[w]
            THEN [permRequests[r] EXCEPT !.chan = "closed"]
          ELSE permRequests[r]]
  /\ channels' = [channels EXCEPT ![w] = next_req]
  /\ next_req' = next_req + 1
  /\ lastRespond' = None

\* The receiver of a call's channel exists while the call waits on it and
\* until the finished wait is dropped.
ReceiverAlive(q) == q.state \in {"waiting", "elapsed"}

\* sender.send(option_id) on the channel of call q: the id is stored when
\* the receiver exists; else the send fails and the sender is dropped.
SendOn(q, id) ==
  IF ReceiverAlive(q) THEN [q EXCEPT !.chan = "sent", !.value = id]
  ELSE [q EXCEPT !.chan = "closed"]

\* What send_permission_response returns after the send.
SendResult(q) == IF ReceiverAlive(q) THEN "ok" ELSE "closed"

\* send_permission_response that reads the worker's sender and leaves it
\* in the map.
RespondKeepsSlot(w, id) ==
  /\ IF channels[w] # NoId
       THEN /\ permRequests' =
                 [permRequests EXCEPT ![channels[w]] = SendOn(@, id)]
            /\ lastRespond' = SendResult(permRequests[channels[w]])
       ELSE /\ lastRespond' = "err"
            /\ UNCHANGED permRequests
  /\ UNCHANGED <<channels, next_req>>

\* send_permission_response: the worker's sender is removed and the option
\* id sent on it: Ok, or Err("Channel closed") when the receiver is gone;
\* Err("No pending permission") when the worker has no sender.
Respond(w, id) ==
  /\ IF channels[w] # NoId
       THEN /\ permRequests' =
                 [permRequests EXCEPT ![channels[w]] = SendOn(@, id)]
            /\ channels' = [channels EXCEPT ![w] = NoId]
            /\ lastRespond' = SendResult(permRequests[channels[w]])
       ELSE /\ lastRespond' = "err"
            /\ UNCHANGED <<permRequests, channels>>
  /\ UNCHANGED next_req

\* The wait ends with Ok(Ok(id)) or Ok(Err(_)): the operator's id, or the
\* auto-approval when the sender was dropped.
Resolve(r) ==
  /\ r \in DOMAIN permRequests
  /\ permRequests[r].state = "waiting"
  /\ permRequests[r].chan \in {"sent", "closed"}
  /\ LET q == permRequests[r]
     IN permRequests' =
          [permRequests EXCEPT ![r] =
             IF q.chan = "sent"
               THEN [q EXCEPT !.state = "resolved", !.via = "operator",
                              !.outcome = Selected(q.value)]
               ELSE [q EXCEPT !.state = "resolved", !.via = "closed",
                              !.outcome = AutoApprove(q.options)]]
  /\ lastRespond' = None
  /\ UNCHANGED <<channels, next_req>>

\* The wait is polled after 300 s with nothing on the channel: it ends with
\* Err(Elapsed), the receiver still in the finished wait.
Elapsed(r) ==
  /\ r \in DOMAIN permRequests
  /\ permRequests[r].state = "waiting"
  /\ permRequests[r].chan = "open"
  /\ permRequests' = [permRequests EXCEPT ![r].state = "elapsed"]
  /\ lastRespond' = None
  /\ UNCHANGED <<channels, next_req>>

\* The finished wait is dropped and the receiver with it; an id sent since
\* the wait ended is lost.
DropReceiver(r) ==
  /\ r \in DOMAIN permRequests
  /\ permRequests[r].state = "elapsed"
  /\ permRequests' = [permRequests EXCEPT ![r].state = "expired"]
  /\ lastRespond' = None
  /\ UNCHANGED <<channels, next_req>>

\* The timeout arm: the sender in the worker's slot, of whichever call, is
\* removed and dropped, and the request auto-approved.
Timeout(r) ==
  /\ r \in DOMAIN permRequests
  /\ permRequests[r].state = "expired"
  /\ LET w == permRequests[r].worker
         q == permRequests[r]
         auto == [permRequests EXCEPT ![r] =
                    [q EXCEPT !.state = "resolved", !.via = "timeout",
                              !.outcome = AutoApprove(q.options)]]
     IN /\ channels' = [channels EXCEPT ![w] = NoId]
        /\ permRequests' =
             IF channels[w] = NoId THEN auto
             ELSE [auto EXCEPT ![channels[w]].chan = "closed"]
  /\ lastRespond' = None
  /\ UNCHANGED next_req

\* The connection is dropped while the call waits: the call is dropped with
\* its receiver; its sender stays in the worker's slot.
DropRequest(r) ==
  /\ r \in DOMAIN permRequests
  /\ permRequests[r].state = "waiting"
  /\ permRequests' = [permRequests EXCEPT ![r].state = "dropped"]
  /\ lastRespond' = None
  /\ UNCHANGED <<channels, next_req>>

PermNext ==
  \/ \E w \in Workers, options \in OptionLists :
       RequestPermission(w, options) /\ PermFrame
  \/ \E w \in Workers, id \in OperatorIds : Respond(w, id) /\ PermFrame
  \/ \E r \in 1..MaxRequests : Resolve(r) /\ PermFrame
  \/ \E r \in 1..MaxRequests : Elapsed(r) /\ PermFrame
  \/ \E r \in 1..MaxRequests : DropReceiver(r) /\ PermFrame
  \/ \E r \in 1..MaxRequests : Timeout(r) /\ PermFrame
  \/ \E r \in 1..MaxRequests : DropRequest(r) /\ PermFrame

\* C9: every request_permission call that is not dropped with its
\* connection eventually resolves, and it resolves with a Selected outcome,
\* never an error: the operator's option id when send_permission_response
\* sent the operator's answer on its channel, a Selected outcome all the
\* same when the channel closed or the timeout elapsed.
PermissionAlwaysSelected ==
  /\ [](\A r \in DOMAIN permRequests :
          permRequests[r].state = "resolved" =>
            /\ permRequests[r].outcome.kind = "selected"
            /\ permRequests[r].chan = "sent" =>
                 permRequests[r].outcome.id = permRequests[r].value)
  /\ \A r \in 1..MaxRequests :
       (r \in DOMAIN permRequests)
         ~> (r \in DOMAIN permRequests
               /\ permRequests[r].state \in {"resolved", "dropped"})

\* C11: a worker has at most one pending reply slot; a second request
\* replaces the first one's sender; a response is delivered to the worker's
\* latest request and to no other; a slot takes at most one response; and a
\* response for a worker without a slot returns an error and changes nothing.
\* A call's slot is pending while its sender is neither used nor dropped.
OneSlotPerWorker ==
  /\ [](\A w \in Workers :
          LET pending == {r \in DOMAIN permRequests :
                            /\ permRequests[r].worker = w
                            /\ permRequests[r].chan = "open"}
          IN /\ Cardinality(pending) <= 1
             /\ pending = IF channels[w] = NoId THEN {} ELSE {channels[w]})
  /\ [][LET got == {r \in DOMAIN permRequests :
                      permRequests'[r].chan # permRequests[r].chan
                        /\ permRequests'[r].chan = "sent"}
        IN /\ \A r \in DOMAIN permRequests :
                permRequests[r].chan = "sent" =>
                  /\ permRequests'[r].chan = "sent"
                  /\ permRequests'[r].value = permRequests[r].value
           /\ \A r \in got :
                /\ permRequests[r].chan = "open"
                /\ \A q \in DOMAIN permRequests :
                     permRequests[q].worker = permRequests[r].worker => q <= r
                /\ channels'[permRequests[r].worker] = NoId
           /\ lastRespond' = "ok" =>
                /\ Cardinality(got) = 1
                /\ \A q \in DOMAIN permRequests \ got :
                     permRequests'[q] = permRequests[q]
           /\ lastRespond' = "err" =>
                /\ \E w \in Workers : channels[w] = NoId
                /\ permRequests' = permRequests
                /\ channels' = channels
                /\ next_req' = next_req]_vars

\* C11 witness: the worker's second request holds the operator's answer
\* while its first one sees only a closed channel.
SecondRequestAnswered ==
  \E r1, r2 \in DOMAIN permRequests :
    /\ r1 < r2
    /\ permRequests[r1].worker = permRequests[r2].worker
    /\ permRequests[r1].chan = "closed"
    /\ permRequests[r2].chan = "sent"
    /\ lastRespond = "ok"

\* C10: an auto-approved request (timeout or closed channel) selects the
\* first offered option of kind allow_once or allow_always, the id
\* "allow_once" only when no such option is offered, and never a reject
\* option.
AutoApprovalNeverRejects ==
  \A r \in DOMAIN permRequests :
    (permRequests[r].state = "resolved"
       /\ permRequests[r].via \in {"timeout", "closed"}) =>
      LET options == permRequests[r].options
          picked == permRequests[r].outcome.id
          allow == {i \in 1..Len(options) : options[i].kind \in AllowKinds}
      IN /\ allow # {} =>
              \E i \in allow : /\ \A j \in allow : i <= j
                               /\ picked = options[i].id
         /\ allow = {} => picked = "allow_once"
         /\ \A i \in 1..Len(options) :
              options[i].kind \in RejectKinds => options[i].id # picked


\* ================================================== Terminals, continued
\* The terminal requests of a connection are served while its supervisor
\* stands at an await.

\* The pids the OS can give the child of a request.  The agent sends its
\* createTerminal requests while there is one; a child that could not be
\* started takes none of them.
GivenPids(spawned) ==
  IF spawned THEN SpawnPids
  ELSE {p \in SpawnPids : \A q \in SpawnPids : p <= q}

TermNext ==
  \E command \in TermCommands, args \in TermArgs, spawned \in BOOLEAN :
     \E pid \in GivenPids(spawned) :
    Serves /\ CreateTerminal(command, args, spawned, pid)
      /\ TermFrame /\ OsFrame

\* The inbox commands an agent sends, while the supervisors of the workers
\* register them with the InboxManager.
InboxArgs ==
  {<<<<"i", "n", "b", "o", "x">>, <<"c", "o", "u", "n", "t">>>>,
   <<<<"i", "n", "b", "o", "x">>, <<"c", "o", "u", "n", "t">>, <<"-", "a">>>>,
   <<<<"i", "n", "b", "o", "x">>, <<"r", "e", "a", "d">>>>,
   <<<<"i", "n", "b", "o", "x">>, <<"r", "e", "a", "d">>,
     <<"-", "-", "u", "n", "r", "e", "a", "d">>>>,
   <<<<"i", "n", "b", "o", "x">>, <<"w", "r", "i", "t", "e">>, <<"w", "2">>,
     <<"h", "i">>>>,
   <<<<"i", "n", "b", "o", "x">>, <<"w", "r", "i", "t", "e">>, <<"w", "1">>,
     <<"h", "i">>>>,
   <<<<"i", "n", "b", "o", "x">>, <<"w", "r", "i", "t", "e">>, <<"w", "2">>>>,
   <<<<"i", "n", "b", "o", "x">>, <<"b", "r", "o", "a", "d", "c", "a", "s", "t">>,
     <<"h", "i">>>>,
   <<<<"i", "n", "b", "o", "x">>,
     <<"b", "r", "o", "a", "d", "c", "a", "s", "t">>>>,
   <<<<"i", "n", "b", "o", "x">>,
     <<"m", "a", "r", "k", "-", "r", "e", "a", "d">>>>,
   <<<<"i", "n", "b", "o", "x">>, <<"w", "o", "r", "k", "e", "r", "s">>>>,
   <<<<"i", "n", "b", "o", "x">>, <<"p", "e", "e", "k">>>>}
TermInboxNext ==
  \/ \E args \in InboxArgs, spawned \in BOOLEAN :
     \E pid \in GivenPids(spawned) :
       Serves /\ CreateTerminal(SwarmWord, args, spawned, pid)
         /\ TermFrame /\ OsFrame
  \/ \E spawned \in BOOLEAN :
     \E pid \in GivenPids(spawned) :
       SwarmBroadcastSends(spawned, pid) /\ TermFrame /\ OsFrame
  \/ \E w \in Workers : RegisterWorker(w) /\ InboxFrame
  \/ \E w \in Workers : UnregisterWorker(w) /\ InboxFrame
  \/ \E w \in Workers : CountMessages(w, FALSE) /\ InboxFrame
  \/ \E c \in BroadcastPayloads :
       Broadcast("w2", c, "command") /\ InboxFrame
  \/ \E k \in CallSlots :
       inbox_calls[k].caller = "command" /\ BroadcastSends(k) /\ InboxFrame

\* The terminals of one connection with their children: a few command
\* lines, and every request about a terminal.
IoLines ==
  {<<<<"s", "w", "a", "r", "m">>,
     <<<<"t", "a", "s", "k">>, <<"l", "i", "s", "t">>>>>>,
   <<<<"l", "s">>, <<>>>>}

\* The agent's requests during one prompt of the supervisor, the children
\* and their pipes.
TermIoNext ==
  \/ \E line \in IoLines, spawned \in BOOLEAN :
     \E pid \in GivenPids(spawned) :
       Serves /\ CreateTerminal(line[1], line[2], spawned, pid)
         /\ TermFrame /\ OsFrame
  \/ \E p \in TermIds : ChildWrites(p) /\ TermFrame /\ OsFrame
         /\ NoInboxCall
  \/ \E p \in TermIds, closes \in BOOLEAN :
       ChildExits(p, closes) /\ TermFrame /\ OsFrame /\ NoInboxCall
  \/ \E p \in TermIds : StdoutCloses(p) /\ TermFrame /\ OsFrame
         /\ NoInboxCall
  \/ \E p \in TermIds :
       Serves /\ TerminalOutput(p) /\ TermFrame /\ OsFrame /\ NoInboxCall
  \/ OutputUnblocks /\ TermFrame /\ OsFrame /\ NoInboxCall
  \/ \E p \in TermIds :
       Serves /\ WaitForTerminalExit(p) /\ TermFrame /\ OsFrame
         /\ NoInboxCall
  \/ WaitUnblocks /\ TermFrame /\ OsFrame /\ NoInboxCall
  \/ \E p \in TermIds :
       Serves /\ KillTerminal(p) /\ TermFrame /\ OsFrame /\ NoInboxCall
  \/ \E p \in TermIds :
       Serves /\ ReleaseTerminal(p) /\ TermFrame /\ NoInboxCall
  \/ \E p \in TermIds : OrphanExits(p) /\ TermFrame /\ NoInboxCall

\* The terminals an agent creates, kills and releases, their children, and
\* the supervisor from its prompt to its return.
TermExitNext ==
  \/ \E line \in IoLines, spawned \in BOOLEAN :
     \E pid \in GivenPids(spawned) :
       Serves /\ CreateTerminal(line[1], line[2], spawned, pid)
         /\ TermFrame /\ OsFrame
  \/ \E p \in TermIds : ChildWrites(p) /\ TermFrame /\ OsFrame
         /\ NoInboxCall
  \/ \E p \in TermIds, closes \in BOOLEAN :
       ChildExits(p, closes) /\ TermFrame /\ OsFrame /\ NoInboxCall
  \/ \E p \in TermIds : StdoutCloses(p) /\ TermFrame /\ OsFrame
         /\ NoInboxCall
  \/ \E p \in TermIds :
       Serves /\ KillTerminal(p) /\ TermFrame /\ OsFrame /\ NoInboxCall
  \/ \E p \in TermIds :
       Serves /\ ReleaseTerminal(p) /\ TermFrame /\ NoInboxCall
  \/ \E p \in TermIds : OrphanExits(p) /\ TermFrame /\ NoInboxCall
  \/ \E result \in {"ok", "error"} : AgentResponds(result) /\ SupFrame
  \/ PromptCompletes /\ SupFrame
  \/ SupervisorReturns /\ ClientFrame

\* ================================================ Supervisor, continued

\* C35: a reconnect_worker call made after the session's supervisor has
\* exited does not return at its test but goes on to start a new
\* supervisor, and the call that goes on starts one with an empty mailbox
\* whose sender the session's handle holds.
ReconnectStartsSupervisor ==
  /\ [][\A k \in 1..MaxReconnects :
          reconnects[k] = "idle" /\ reconnects'[k] # "idle"
            /\ pc = "exited" /\ displaced = <<>>
          => reconnects'[k] = "tested"]_vars
  /\ [][\A k \in 1..MaxReconnects :
          reconnects[k] = "tested" /\ reconnects'[k] = "sleeping"
          => pc' = "start" /\ mailbox' = <<>> /\ mailboxOpen']_vars

\* C37: a send_prompt or send_prompt_with_images that returns an error (here:
\* one made when the supervisor has stopped, whose send fails) leaves the
\* status as it was: the lock section in which the command reports running
\* does not change it.
FailedSendChangesNothing ==
  [][pc = "exited" /\ (\E kind \in PromptKinds : ReportRunning(kind)) =>
       status' = status]_vars

\* ==================================================== Session persistence
\* The session files of acp/session_store.rs and the command that writes
\* them.  A file holds one PersistedSession; of its fields the model keeps
\* the two timestamps and the mode.  The clock is the wall clock read in
\* whole seconds; it does not run backwards.
PersistedIds == {"s1", "s2"}
SessionModes == {"normal", "plan"}

\* No file under that name.
NoSessionFile ==
  [exists |-> FALSE, created_at |-> 0, updated_at |-> 0, mode |-> "normal"]

StoreInit ==
  /\ session_files = [id \in PersistedIds |-> NoSessionFile]
  /\ wall_clock = 0
  /\ lastSave = [op |-> "none", id |-> "s1"]

\* A second passes.
ClockTick ==
  /\ wall_clock < MaxTime
  /\ wall_clock' = wall_clock + 1
  /\ UNCHANGED <<session_files, lastSave>>

\* A created_at taken from the clock at every save.
CreatedAtNow(stored, now) == now

\* created_at of the session to write: the stored one if the file exists.
CreatedAt(stored, now) == IF stored.exists THEN stored.created_at ELSE now

\* save_session_to_persistence
SaveSession(id, m) ==
  /\ session_files' =
       [session_files EXCEPT ![id] =
          [exists |-> TRUE,
           created_at |-> CreatedAt(session_files[id], wall_clock),
           updated_at |-> wall_clock,
           mode |-> m]]
  /\ lastSave' = [op |-> "save", id |-> id]
  /\ UNCHANGED wall_clock

\* delete_persisted_session
DeleteSession(id) ==
  /\ session_files' = [session_files EXCEPT ![id] = NoSessionFile]
  /\ lastSave' = [op |-> "delete", id |-> id]
  /\ UNCHANGED wall_clock

StoreNext ==
  \/ ClockTick /\ StoreFrame
  \/ \E id \in PersistedIds, m \in SessionModes :
       SaveSession(id, m) /\ StoreFrame
  \/ \E id \in PersistedIds : DeleteSession(id) /\ StoreFrame

\* A save of the session that the previous command saved too.
SavedTwice ==
  /\ lastSave.op = "save"
  /\ lastSave'.op = "save"
  /\ lastSave'.id = lastSave.id
  /\ session_files' # session_files

\* C33: the second of two successive saves of one session id keeps the
\* created_at of the first and writes an updated_at strictly greater than
\* the first one's.
SecondSaveStrictlyLater ==
  [][SavedTwice =>
       LET id == lastSave.id
       IN /\ session_files'[id].created_at = session_files[id].created_at
          /\ session_files'[id].updated_at > session_files[id].updated_at]_vars

\* C33, amended: the second of two successive saves of one session id keeps
\* the created_at of the first and writes an updated_at that is not smaller
\* than the first one's; the two are equal when both saves fall in the same
\* second.
SecondSaveNotEarlier ==
  [][SavedTwice =>
       LET id == lastSave.id
       IN /\ session_files'[id].created_at = session_files[id].created_at
          /\ session_files'[id].updated_at >= session_files[id].updated_at
          /\ session_files'[id].updated_at = wall_clock]_vars

\* C33 witness: a session saved, and saved again a second later.
SavedAgainLater ==
  /\ lastSave.op = "save"
  /\ session_files[lastSave.id].exists
  /\ session_files[lastSave.id].created_at < session_files[lastSave.id].updated_at
  /\ session_files[lastSave.id].updated_at = wall_clock

\* ========================================================= PRD validation
\* prd/parser.rs (validate_prd, detect_cycle, dfs_cycle, topological_sort).

StoryIds == {"a", "b", "c"}

\* The ids of a PRD's stories, in order; some lists repeat an id.
IdLists ==
  {<<>>, <<"a">>, <<"a", "b">>, <<"a", "a">>, <<"a", "b", "c">>,
   <<"c", "a", "b">>, <<"a", "b", "a">>}

\* Story.dependencies: any list of story ids, or an id no story has.
DependencyLists ==
  {<<"x">>} \cup UNION {[1..n -> StoryIds] : n \in 0..MaxDependencies}

\* AcceptanceCriterion of type test.
TestCriterion(command) == [criterion_type |-> "test", command |-> command]

\* The acceptance criteria of the first story: a valid one, none, or one
\* without a command.  The other stories have a valid criterion.
CriteriaLists ==
  {<<TestCriterion("npm test")>>, <<>>, <<TestCriterion("")>>}

\* PrdConstraints: (max_workers, max_iterations_per_story)
ConstraintChoices ==
  {[max_workers |-> 1, max_iterations_per_story |-> 1],
   [max_workers |-> 0, max_iterations_per_story |-> 1],
   [max_workers |-> 2, max_iterations_per_story |-> 0]}

Story(id, dependencies, criteria) ==
  [id |-> id, dependencies |-> dependencies, acceptance_criteria |-> criteria]

PrdInputs ==
  {[stories |-> [i \in 1..Len(ids) |->
                   Story(ids[i], deps[i],
                         IF i = 1 THEN criteria
                         ELSE <<TestCriterion("npm test")>>)],
    constraints |-> c] :
     ids \in IdLists, deps \in [1..MaxStories -> DependencyLists],
     criteria \in CriteriaLists, c \in ConstraintChoices}

NotValidated == [valid |-> FALSE, errors |-> {"not validated"},
                 dependency_order |-> <<>>]

ParserInit ==
  /\ prd \in PrdInputs
  /\ validation = NotValidated

\* The elements of a list.
Elements(list) == {list[i] : i \in 1..Len(list)}

\* validate_criterion
validate_criterion(criterion) ==
  criterion.criterion_type = "test"
    /\ (criterion.command = None \/ criterion.command = "")

\* dep_map of detect_cycle: collecting into a HashMap keeps the last story
\* of each id.
DepMap(stories) ==
  [id \in {stories[i].id : i \in 1..Len(stories)} |->
     LET last == CHOOSE i \in 1..Len(stories) :
                   /\ stories[i].id = id
                   /\ \A j \in 1..Len(stories) : stories[j].id = id => j <= i
     IN stories[last].dependencies]

\* dfs_cycle; DfsDeps is its loop over the dependencies of the node.  The
\* search state is visited, rec_stack and path, and found says that
\* Some(path) was returned.
RECURSIVE DfsCycle(_, _, _)
RECURSIVE DfsDeps(_, _, _)
DfsCycle(node, dep_map, st) ==
  LET entered == [st EXCEPT !.visited = @ \cup {node},
                            !.rec_stack = @ \cup {node},
                            !.path = Append(@, node)]
      deps == IF node \in DOMAIN dep_map THEN dep_map[node] ELSE <<>>
      r == DfsDeps(deps, dep_map, entered)
  IN IF r.found THEN r
     ELSE [r EXCEPT !.rec_stack = @ \ {node},
                    !.path = SubSeq(@, 1, Len(@) - 1)]

DfsDeps(deps, dep_map, st) ==
  IF deps = <<>> THEN st
  ELSE LET dep == Head(deps)
       IN IF dep \notin st.visited
            THEN LET r == DfsCycle(dep, dep_map, st)
                 IN IF r.found THEN r ELSE DfsDeps(Tail(deps), dep_map, r)
            ELSE IF dep \in st.rec_stack
              THEN [st EXCEPT !.path = Append(@, dep), !.found = TRUE]
              ELSE DfsDeps(Tail(deps), dep_map, st)

\* The loop of detect_cycle over the stories.
RECURSIVE DetectFrom(_, _, _)
DetectFrom(stories, dep_map, st) ==
  IF stories = <<>> \/ st.found THEN st
  ELSE IF Head(stories).id \in st.visited
    THEN DetectFrom(Tail(stories), dep_map, st)
    ELSE DetectFrom(Tail(stories), dep_map,
                    DfsCycle(Head(stories).id, dep_map, st))

\* detect_cycle: the cycle found, <<>> for None.
detect_cycle(stories) ==
  LET r == DetectFrom(stories, DepMap(stories),
                      [visited |-> {}, rec_stack |-> {}, path |-> <<>>,
                       found |-> FALSE])
  IN IF r.found THEN r.path ELSE <<>>

\* How often a value occurs in a list.
RECURSIVE Count(_, _)
Count(list, x) ==
  IF list = <<>> THEN 0
  ELSE (IF Head(list) = x THEN 1 ELSE 0) + Count(Tail(list), x)

\* in_degree of topological_sort: one per dependency of the stories of
\* that id.
RECURSIVE InDegree(_, _)
InDegree(stories, id) ==
  IF stories = <<>> THEN 0
  ELSE (IF Head(stories).id = id THEN Len(Head(stories).dependencies)
        ELSE 0) + InDegree(Tail(stories), id)

\* graph of topological_sort: the stories that depend on the node, in the
\* order of the stories, once per mention.
RECURSIVE Dependents(_, _)
Dependents(stories, node) ==
  IF stories = <<>> THEN <<>>
  ELSE [i \in 1..Count(Head(stories).dependencies, node) |->
          Head(stories).id] \o Dependents(Tail(stories), node)

\* The inner loop of Kahn's algorithm: each neighbour loses one degree and
\* is pushed when it reaches zero.
RECURSIVE Relax(_, _, _)
Relax(neighbors, queue, in_degree) ==
  IF neighbors = <<>> THEN [queue |-> queue, in_degree |-> in_degree]
  ELSE LET n == Head(neighbors)
           deg == in_degree[n] - 1
       IN Relax(Tail(neighbors),
                IF deg = 0 THEN Append(queue, n) ELSE queue,
                [in_degree EXCEPT ![n] = deg])

\* A Kahn loop that never lowers a degree.
RECURSIVE KahnNoRelax(_, _, _, _)
KahnNoRelax(stories, queue, in_degree, result) ==
  IF queue = <<>> THEN result
  ELSE KahnNoRelax(stories, SubSeq(queue, 1, Len(queue) - 1), in_degree,
                   Append(result, queue[Len(queue)]))

\* The outer loop: queue.pop() takes the node pushed last.
RECURSIVE Kahn(_, _, _, _)
Kahn(stories, queue, in_degree, result) ==
  IF queue = <<>> THEN result
  ELSE LET node == queue[Len(queue)]
           r == Relax(Dependents(stories, node),
                      SubSeq(queue, 1, Len(queue) - 1), in_degree)
       IN Kahn(stories, r.queue, r.in_degree, Append(result, node))

\* The orders in which a HashMap may hand out the stories without
\* dependencies.
ZeroDegreeOrders(stories) ==
  LET zero == {id \in Elements([i \in 1..Len(stories) |-> stories[i].id]) :
                 InDegree(stories, id) = 0}
  IN {q \in [1..Cardinality(zero) -> zero] :
        \A i, j \in 1..Cardinality(zero) : q[i] = q[j] => i = j}

\* topological_sort, for one order of the initial queue.
topological_sort(stories, queue) ==
  Kahn(stories, queue,
       [id \in Elements([i \in 1..Len(stories) |-> stories[i].id]) |->
          InDegree(stories, id)],
       <<>>)

\* The errors validate_prd collects, by kind.
ValidationErrors(p) ==
  LET stories == p.stories
      N == 1..Len(stories)
      ids == {stories[i].id : i \in N}
  IN IF stories = <<>> THEN {"empty"}
     ELSE {e \in {"duplicate", "missing dependency", "cycle", "no criterion",
                  "criterion", "max_workers", "max_iterations"} :
             CASE e = "duplicate" ->
                    \E i, j \in N : i < j /\ stories[i].id = stories[j].id
               [] e = "missing dependency" ->
                    \E i \in N : Elements(stories[i].dependencies) \ ids # {}
               [] e = "cycle" -> detect_cycle(stories) # <<>>
               [] e = "no criterion" ->
                    \E i \in N : stories[i].acceptance_criteria = <<>>
               [] e = "criterion" ->
                    \E i \in N :
                      \E k \in 1..Len(stories[i].acceptance_criteria) :
                        validate_criterion(stories[i].acceptance_criteria[k])
               [] e = "max_workers" -> p.constraints.max_workers = 0
               [] e = "max_iterations" ->
                    p.constraints.max_iterations_per_story = 0}

\* validate_prd: invalid with the errors, or valid with the dependency
\* order.
Validate ==
  /\ validation = NotValidated
  /\ LET errors == ValidationErrors(prd)
     IN IF errors # {}
          THEN validation' = [valid |-> FALSE, errors |-> errors,
                              dependency_order |-> <<>>]
          ELSE \E queue \in ZeroDegreeOrders(prd.stories) :
                 validation' =
                   [valid |-> TRUE, errors |-> {},
                    dependency_order |->
                      topological_sort(prd.stories, queue)]
  /\ UNCHANGED prd

ParserNext == Validate /\ ParserFrame

\* C16: an accepted PRD's dependency_order holds every story id exactly
\* once, each after all of its dependencies; and a PRD whose dependencies
\* contain a cycle (a story depending on itself included) is rejected.
DependencyOrderIsTopological ==
  validation # NotValidated =>
    LET stories == prd.stories
        N == 1..Len(stories)
        order == validation.dependency_order
        Pos(id) == CHOOSE k \in 1..Len(order) : order[k] = id
        Nodes == StoryIds \cup {"x"}
        Edge == {e \in Nodes \X Nodes :
                   \E i \in N : /\ stories[i].id = e[1]
                                /\ e[2] \in Elements(stories[i].dependencies)}
        Longer(R) == R \cup {p \in Nodes \X Nodes :
                               \E m \in Nodes : /\ <<p[1], m>> \in R
                                                /\ <<m, p[2]>> \in Edge}
        Cyclic == \E id \in StoryIds : <<id, id>> \in Longer(Longer(Edge))
    IN /\ validation.valid =>
            /\ Len(order) = Len(stories)
            /\ \A i \in N : \E k \in 1..Len(order) : order[k] = stories[i].id
            /\ \A k, l \in 1..Len(order) : order[k] = order[l] => k = l
            /\ \A i \in N : \A d \in Elements(stories[i].dependencies) :
                 /\ \E k \in 1..Len(order) : order[k] = d
                 /\ Pos(d) < Pos(stories[i].id)
       /\ Cyclic => ~validation.valid

\* C16 witness: three stories, the first depending on the other two and the
\* second on the third, were accepted and ordered c, b, a.
DiamondOrdered ==
  /\ validation.valid
  /\ Len(prd.stories) = 3
  /\ prd.stories[1].dependencies = <<"b", "c">>
  /\ prd.stories[2].dependencies = <<"c">>
  /\ validation.dependency_order = <<"c", "b", "a">>

\* ============================================================= PRD driver
\* prd/manager.rs (PrdManager, run_ralph_loop, run_worker_loop),
\* prd/types.rs (PrdSession, StoryProgress, RalphWorker), prd/verifier.rs,
\* prd/commands.rs.

\* format!("worker-{}", i)
PoolWorkers == <<"worker-0", "worker-1">>

\* The validated PRDs a session is created from: story a, with the given
\* acceptance criteria, and story b with one criterion.  With two workers
\* and one iteration per story, b is independent of a, which has one
\* criterion, or depends on a, which has two; with one worker and
\* MaxIterations iterations per story, b depends on a, which has two.
OneCriterion == <<TestCriterion("npm test")>>
TwoCriteria == <<TestCriterion("npm test"), TestCriterion("lint")>>

DriverPrd(criteria, deps, max_workers, max_iterations) ==
  [stories |->
     <<Story("a", <<>>, criteria), Story("b", deps, OneCriterion)>>,
   constraints |-> [max_workers |-> max_workers,
                    max_iterations_per_story |-> max_iterations]]

DriverPrds ==
  {DriverPrd(OneCriterion, <<>>, 2, 1), DriverPrd(TwoCriteria, <<"a">>, 2, 1),
   DriverPrd(TwoCriteria, <<"a">>, 1, MaxIterations)}

\* StoryProgress::new
NewProgress(max_iterations, criteria_count) ==
  [status |-> "pending", worker_id |-> None, iteration |-> 0,
   max_iterations |-> max_iterations,
   criteria_status |-> [i \in 1..criteria_count |-> FALSE],
   error |-> <<>>]

\* RalphWorker::new
NewWorker(id) ==
  [id |-> id, status |-> "idle", current_story_id |-> None, iteration |-> 0,
   error |-> <<>>]

\* PrdSession::new
NewSession(p) ==
  [prd |-> p,
   status |-> "idle",
   workers |-> [i \in 1..p.constraints.max_workers |->
                  NewWorker(PoolWorkers[i])],
   story_progress |->
     [id \in {p.stories[i].id : i \in 1..Len(p.stories)} |->
        LET st == CHOOSE st \in Elements(p.stories) : st.id = id
        IN NewProgress(p.constraints.max_iterations_per_story,
                       Len(st.acceptance_criteria))]]

\* Uuid::new_v4().to_string(): the session of the model and another one of
\* the same manager; ids have one length and differ.
SessionId == <<"u", "1">>
OtherSessionId == <<"u", "2">>

\* format!("{}:{}", session_id, worker_id)
WorkerKey(session_id, worker_id) == session_id \o <<":", worker_id>>

\* The key of a pool worker's loop in the session of the model.
Key(w) == WorkerKey(SessionId, w)

\* The cancel channels the manager can hold: those of the session's worker
\* loops and that of a worker loop of the other session.
CancelKeys ==
  {Key(w) : w \in Elements(PoolWorkers)}
    \cup {WorkerKey(OtherSessionId, PoolWorkers[1])}

\* The error messages of the worker loop and of cancel_session.
SpawnAgentFailed == <<"Failed to spawn agent">>
InitializeAgentFailed == <<"Failed to initialize agent">>
CreateSessionFailed == <<"Failed to create session">>
MaxIterationsMessage(n) == <<"Max iterations (", DigitChar[n], ") reached">>
SessionCancelled == <<"Session cancelled">>

\* No worker loop runs for the pool worker.  Of a loop the record holds
\* where it is, its story, the iteration of its for loop, the calls of
\* client.prompt it made, its guardrails, how it leaves once it is on a
\* path to `return`, and the number of loops the same pool worker ran
\* before that have not returned yet.
NoLoop == [pc |-> "none", story_id |-> None, iteration |-> 0,
           prompts |-> 0, guardrails |-> <<>>, leaving |-> None,
           earlier |-> 0]

\* The main loops by where they are: spawned and not started, at the head
\* of the loop, before assign_next_story, before the completion check, and
\* before the update that completes the session.
NoMainLoop ==
  [spawned |-> 0, looping |-> 0, assigning |-> 0, checking |-> 0,
   completing |-> 0]

\* create_prd_session: the session is created and the main loop spawned.
DriverInit ==
  /\ prd_session \in {NewSession(p) : p \in DriverPrds}
  /\ ralph = [NoMainLoop EXCEPT !.spawned = 1]
  /\ wloop = [w \in Elements(PoolWorkers) |-> NoLoop]
  /\ cancel_channels =
       [k \in CancelKeys |->
          IF StartsWith(k, SessionId) THEN "none" ELSE "empty"]
  /\ ops = 0
  /\ lastCall = [op |-> None, ok |-> TRUE]
  /\ cancelling = 0
  /\ retrying = 0

\* PrdSession::all_stories_completed with any in place of all.
some_story_completed(session) ==
  \E id \in DOMAIN session.story_progress :
    session.story_progress[id].status = "completed"

\* PrdSession::all_stories_completed
all_stories_completed(session) ==
  \A id \in DOMAIN session.story_progress :
    session.story_progress[id].status = "completed"

\* PrdSession::any_story_failed
any_story_failed(session) ==
  \E id \in DOMAIN session.story_progress :
    session.story_progress[id].status = "failed"

\* The index of the pool worker of that id.
WorkerIndex(session, worker_id) ==
  CHOOSE i \in 1..Len(session.workers) : session.workers[i].id = worker_id

\* complete_story: progress.complete(), worker.complete() and reset(), and
\* the session completes when every story has.
complete_story(session, story_id, worker_id) ==
  LET done == [session EXCEPT
                 !.story_progress[story_id].status = "completed",
                 !.workers[WorkerIndex(session, worker_id)] =
                    NewWorker(worker_id)]
  IN IF all_stories_completed(done)
       THEN [done EXCEPT !.status = "completed"] ELSE done

\* fail_story: progress.fail(error), worker.fail(error), and the session
\* fails when a story has.
fail_story(session, story_id, worker_id, error) ==
  LET failed == [session EXCEPT
                   !.story_progress[story_id].status = "failed",
                   !.story_progress[story_id].error = error,
                   !.workers[WorkerIndex(session, worker_id)].status = "error",
                   !.workers[WorkerIndex(session, worker_id)].error = error]
  IN IF any_story_failed(failed)
       THEN [failed EXCEPT !.status = "failed"] ELSE failed

\* increment_iteration
increment_iteration(session, story_id, worker_id) ==
  [session EXCEPT
     !.story_progress[story_id].iteration = @ + 1,
     !.workers[WorkerIndex(session, worker_id)].iteration = @ + 1]

\* The ready stories without the test of the dependencies.
PendingStories(session) ==
  {i \in 1..Len(session.prd.stories) :
     session.story_progress[session.prd.stories[i].id].status = "pending"}

\* The ready stories of assign_next_story: pending, every dependency
\* completed.
ReadyStories(session) ==
  {i \in 1..Len(session.prd.stories) :
     LET st == session.prd.stories[i]
     IN /\ session.story_progress[st.id].status = "pending"
        /\ \A d \in Elements(st.dependencies) :
             /\ d \in DOMAIN session.story_progress
             /\ session.story_progress[d].status = "completed"}

IdleWorkers(session) ==
  {i \in 1..Len(session.workers) : session.workers[i].status = "idle"}

\* First of a set of positions.
First(S) == CHOOSE i \in S : \A j \in S : i <= j

\* assign_next_story: the first idle worker starts the first ready story.
assign_next_story(session) ==
  LET w == First(IdleWorkers(session))
      id == session.prd.stories[First(ReadyStories(session))].id
  IN [session EXCEPT
        !.workers[w].status = "working",
        !.workers[w].current_story_id = id,
        !.workers[w].iteration = 1,
        !.story_progress[id].status = "in_progress",
        !.story_progress[id].worker_id = session.workers[w].id]

CanAssign(session) ==
  IdleWorkers(session) # {} /\ ReadyStories(session) # {}

\* run_ralph_loop, its first step: start_session sets the status to running.
LoopStart ==
  /\ ralph.spawned > 0
  /\ ralph' = [ralph EXCEPT !.spawned = @ - 1, !.looping = @ + 1]
  /\ prd_session' = [prd_session EXCEPT !.status = "running"]
  /\ UNCHANGED <<wloop, cancel_channels,
               ops, lastCall, cancelling, retrying>>

\* The head of the main loop: get_session, and the loop is left unless
\* the session is running.
LoopTurn ==
  /\ ralph.looping > 0
  /\ ralph' = IF prd_session.status # "running"
                THEN [ralph EXCEPT !.looping = @ - 1]
                ELSE [ralph EXCEPT !.looping = @ - 1, !.assigning = @ + 1]
  /\ UNCHANGED <<prd_session, wloop, cancel_channels,
               ops, lastCall, cancelling, retrying>>

\* assign_next_story under the sessions lock, and the thread of the worker
\* loop spawned when a story was assigned.  The pool worker is idle again as
\* soon as complete_story has run, so the loop that completed its last story
\* may still be in client.kill().await; it is counted in `earlier`.
LoopAssign ==
  /\ ralph.assigning > 0
  /\ ralph' = [ralph EXCEPT !.assigning = @ - 1, !.checking = @ + 1]
  /\ IF CanAssign(prd_session)
       THEN LET assigned == assign_next_story(prd_session)
                w == PoolWorkers[First(IdleWorkers(prd_session))]
            IN /\ prd_session' = assigned
               /\ wloop' =
                    [wloop EXCEPT ![w] =
                       [NoLoop EXCEPT
                          !.pc = "start",
                          !.story_id =
                             assigned.workers[
                               WorkerIndex(assigned, w)].current_story_id,
                          !.earlier =
                             wloop[w].earlier
                               + (IF wloop[w].pc = "returning"
                                    THEN 1 ELSE 0)]]
       ELSE UNCHANGED <<prd_session, wloop>>
  /\ UNCHANGED <<cancel_channels, ops, lastCall, cancelling, retrying>>

\* The completion check on a second get_session: the loop goes on to
\* complete the session when every story is completed, is left when a
\* story failed, and else sleeps and turns again.
LoopCheck ==
  /\ ralph.checking > 0
  /\ ralph' =
       IF all_stories_completed(prd_session)
         THEN [ralph EXCEPT !.checking = @ - 1, !.completing = @ + 1]
       ELSE IF any_story_failed(prd_session)
         THEN [ralph EXCEPT !.checking = @ - 1]
       ELSE [ralph EXCEPT !.checking = @ - 1, !.looping = @ + 1]
  /\ UNCHANGED <<prd_session, wloop, cancel_channels,
               ops, lastCall, cancelling, retrying>>

\* update_session: the status is set to completed, and the loop is left.
LoopComplete ==
  /\ ralph.completing > 0
  /\ ralph' = [ralph EXCEPT !.completing = @ - 1]
  /\ prd_session' = [prd_session EXCEPT !.status = "completed"]
  /\ UNCHANGED <<wloop, cancel_channels,
               ops, lastCall, cancelling, retrying>>

\* The pcs of a worker loop that has returned: failed (startup),
\* cancelled, completed, stopped (session not running), exhausted
\* (iterations used up).
ReturnedPcs == {"failed", "cancelled", "completed", "stopped", "exhausted"}

\* A path that ends the loop has been taken: what is left of the loop is
\* client.kill().await, where a client was spawned, and the `return`.  The
\* cancel sender stays registered and the receiver lives until the return.
Leaves(w, how) ==
  wloop' = [wloop EXCEPT ![w].pc = "returning", ![w].leaving = how]

\* The `return` of the worker loop after client.kill().await: the cancel
\* receiver is dropped while the sender stays in the map; only the path of
\* the used up iterations calls remove_cancel before it.
WorkerReturns(w) ==
  /\ wloop[w].pc = "returning"
  /\ wloop' = [wloop EXCEPT ![w].pc = wloop[w].leaving]
  /\ cancel_channels' =
       [cancel_channels EXCEPT
          ![Key(w)] = IF wloop[w].leaving = "exhausted"
                        THEN "none" ELSE "closed"]
  /\ UNCHANGED <<prd_session, ralph, ops, lastCall, cancelling, retrying>>

\* The `return` of a loop the pool worker ran before its present one.  Its
\* sender is still the one under the worker's key when the present loop
\* has not called register_cancel yet; a pool worker is idle again only
\* after complete_story, so with two stories there is at most one such loop.
EarlierLoopReturns(w) ==
  /\ wloop[w].earlier > 0
  /\ wloop' = [wloop EXCEPT ![w].earlier = @ - 1]
  /\ cancel_channels' =
       IF wloop[w].pc = "start" /\ wloop[w].earlier = 1
         THEN [cancel_channels EXCEPT ![Key(w)] = "closed"]
         ELSE cancel_channels
  /\ UNCHANGED <<prd_session, ralph, ops, lastCall, cancelling, retrying>>

\* run_worker_loop up to register_cancel: a new cancel channel takes the
\* worker's key.
WorkerStart(w) ==
  /\ wloop[w].pc = "start"
  /\ wloop' = [wloop EXCEPT ![w].pc = "spawn"]
  /\ cancel_channels' = [cancel_channels EXCEPT ![Key(w)] = "empty"]
  /\ UNCHANGED <<prd_session, ralph, ops, lastCall, cancelling, retrying>>

\* AcpClient::spawn returned; on an error fail_story runs.
WorkerSpawn(w, ok) ==
  /\ wloop[w].pc = "spawn"
  /\ IF ok
       THEN /\ wloop' = [wloop EXCEPT ![w].pc = "initialize"]
            /\ UNCHANGED prd_session
       ELSE /\ prd_session' = fail_story(prd_session, wloop[w].story_id, w,
                                         SpawnAgentFailed)
            /\ Leaves(w, "failed")
  /\ UNCHANGED <<ralph, cancel_channels, ops, lastCall, cancelling, retrying>>

\* client.initialize returned; on an error fail_story runs.
WorkerInitialize(w, ok) ==
  /\ wloop[w].pc = "initialize"
  /\ IF ok
       THEN /\ wloop' = [wloop EXCEPT ![w].pc = "create_session"]
            /\ UNCHANGED prd_session
       ELSE /\ prd_session' = fail_story(prd_session, wloop[w].story_id, w,
                                         InitializeAgentFailed)
            /\ Leaves(w, "failed")
  /\ UNCHANGED <<ralph, cancel_channels, ops, lastCall, cancelling, retrying>>

\* client.create_acp_session returned; on an error fail_story runs.
WorkerCreateSession(w, ok) ==
  /\ wloop[w].pc = "create_session"
  /\ IF ok
       THEN /\ wloop' = [wloop EXCEPT ![w].pc = "iterate"]
            /\ UNCHANGED prd_session
       ELSE /\ prd_session' = fail_story(prd_session, wloop[w].story_id, w,
                                         CreateSessionFailed)
            /\ Leaves(w, "failed")
  /\ UNCHANGED <<ralph, cancel_channels, ops, lastCall, cancelling, retrying>>

\* for iteration in 1..=max_iterations
IterationsLeft(iteration, max_iterations) == iteration < max_iterations

\* The head of the for loop: increment_iteration counts the next iteration
\* and client.prompt is called; after the last iteration fail_story runs.
WorkerIterate(w) ==
  /\ wloop[w].pc = "iterate"
  /\ LET max_iterations ==
           prd_session.prd.constraints.max_iterations_per_story
     IN IF IterationsLeft(wloop[w].iteration, max_iterations)
          THEN /\ prd_session' =
                    increment_iteration(prd_session, wloop[w].story_id, w)
               /\ wloop' = [wloop EXCEPT ![w].iteration = @ + 1,
                                         ![w].prompts = @ + 1,
                                         ![w].pc = "prompting"]
          ELSE /\ prd_session' =
                    fail_story(prd_session, wloop[w].story_id, w,
                               MaxIterationsMessage(max_iterations))
               /\ Leaves(w, "exhausted")
  /\ UNCHANGED <<ralph, cancel_channels, ops, lastCall, cancelling, retrying>>

\* client.prompt returned Ok or an error: the verifier runs, or an agent
\* error guardrail is pushed and the loop continues.
WorkerPromptDone(w, ok) ==
  /\ wloop[w].pc = "prompting"
  /\ wloop' =
       IF ok THEN [wloop EXCEPT ![w].pc = "verify"]
       ELSE [wloop EXCEPT ![w].pc = "iterate",
                          ![w].guardrails = Append(@, <<"Agent error">>)]
  /\ UNCHANGED <<prd_session, ralph, cancel_channels, ops, lastCall,
                 cancelling, retrying>>

\* client.prompt returned Err(Cancelled): cancel_rx.recv() took the message
\* out of the channel, and the loop goes to its kill and return.
WorkerPromptCancelled(w) ==
  /\ wloop[w].pc = "prompting"
  /\ cancel_channels[Key(w)] = "message"
  /\ cancel_channels' = [cancel_channels EXCEPT ![Key(w)] = "empty"]
  /\ Leaves(w, "cancelled")
  /\ UNCHANGED <<prd_session, ralph, ops, lastCall, cancelling, retrying>>

\* The guardrails of the criteria that did not pass, in their order.
RECURSIVE FailedGuardrails(_, _)
FailedGuardrails(statuses, i) ==
  IF i > Len(statuses) THEN <<>>
  ELSE (IF statuses[i] THEN <<>> ELSE <<(<<"Criterion", DigitChar[i]>>)>>)
         \o FailedGuardrails(statuses, i + 1)

\* all_criteria_pass
all_criteria_pass(statuses) == \A i \in 1..Len(statuses) : statuses[i]

\* verify_all_criteria returned and update_criteria_status stores the
\* statuses; when a criterion failed a guardrail is pushed per failed
\* criterion.
WorkerVerify(w, statuses) ==
  /\ wloop[w].pc = "verify"
  /\ Len(statuses) =
       Len(prd_session.story_progress[wloop[w].story_id].criteria_status)
  /\ prd_session' =
       [prd_session EXCEPT
          !.story_progress[wloop[w].story_id].criteria_status = statuses]
  /\ wloop' =
       IF all_criteria_pass(statuses)
         THEN [wloop EXCEPT ![w].pc = "complete"]
         ELSE [wloop EXCEPT
                 ![w].pc = "check_running",
                 ![w].guardrails = @ \o FailedGuardrails(statuses, 1)]
  /\ UNCHANGED <<ralph, cancel_channels, ops, lastCall, cancelling, retrying>>

\* complete_story after a verification in which every criterion passed.
WorkerComplete(w) ==
  /\ wloop[w].pc = "complete"
  /\ prd_session' = complete_story(prd_session, wloop[w].story_id, w)
  /\ Leaves(w, "completed")
  /\ UNCHANGED <<ralph, cancel_channels, ops, lastCall, cancelling, retrying>>

\* get_session after a failed verification: the loop is left unless the
\* session is running.
WorkerCheckRunning(w) ==
  /\ wloop[w].pc = "check_running"
  /\ IF prd_session.status # "running"
       THEN Leaves(w, "stopped")
       ELSE wloop' = [wloop EXCEPT ![w].pc = "iterate"]
  /\ UNCHANGED <<prd_session, ralph, cancel_channels, ops, lastCall,
                 cancelling, retrying>>

\* The operator's calls: those that returned and those under way.
Calls == ops + cancelling + retrying

\* pause_prd_session
Pause ==
  /\ Calls < MaxOps
  /\ ops' = ops + 1
  /\ IF prd_session.status = "running"
       THEN /\ prd_session' = [prd_session EXCEPT !.status = "paused"]
            /\ lastCall' = [op |-> "pause", ok |-> TRUE]
       ELSE /\ lastCall' = [op |-> "pause", ok |-> FALSE]
            /\ UNCHANGED prd_session
  /\ UNCHANGED <<ralph, wloop, cancel_channels, cancelling, retrying>>

\* resume_prd_session: resume_session, then the main loop is spawned anew.
Resume ==
  /\ Calls < MaxOps
  /\ ops' = ops + 1
  /\ IF prd_session.status = "paused"
       THEN /\ prd_session' = [prd_session EXCEPT !.status = "running"]
            /\ ralph' = [ralph EXCEPT !.spawned = @ + 1]
            /\ lastCall' = [op |-> "resume", ok |-> TRUE]
       ELSE /\ lastCall' = [op |-> "resume", ok |-> FALSE]
            /\ UNCHANGED <<prd_session, ralph>>
  /\ UNCHANGED <<wloop, cancel_channels, cancelling, retrying>>

\* cancel_session, its first loop: try_send on every channel whose key
\* starts with the session id; a full or closed channel is left as it is.
SignalAll(senders, session_id) ==
  [k \in DOMAIN senders |->
     IF StartsWith(k, session_id) /\ senders[k] = "empty"
       THEN "message" ELSE senders[k]]

\* cancel_session under the lock of the cancel channels: every channel of
\* the session is signalled.
CancelSignal ==
  /\ Calls < MaxOps
  /\ cancelling' = cancelling + 1
  /\ cancel_channels' = SignalAll(cancel_channels, SessionId)
  /\ UNCHANGED <<prd_session, ralph, wloop, ops, lastCall, retrying>>

\* cancel_session under the lock of the sessions: the session fails and the
\* working workers are marked error; cancel_prd_session returns.
CancelMark ==
  /\ cancelling > 0
  /\ cancelling' = cancelling - 1
  /\ ops' = ops + 1
  /\ prd_session' =
       [prd_session EXCEPT
          !.status = "failed",
          !.workers = [i \in 1..Len(@) |->
                         IF @[i].status = "working"
                           THEN [@[i] EXCEPT !.status = "error",
                                             !.error = SessionCancelled]
                           ELSE @[i]]]
  /\ lastCall' = [op |-> "cancel", ok |-> TRUE]
  /\ UNCHANGED <<ralph, wloop, cancel_channels, retrying>>

\* retry_story: a failed story is reset to pending and a failed session
\* runs again; any other story is refused and retry_prd_story returns.
RetryStory(story_id) ==
  /\ Calls < MaxOps
  /\ IF prd_session.story_progress[story_id].status = "failed"
       THEN LET reset ==
                  [prd_session EXCEPT
                     !.story_progress[story_id].status = "pending",
                     !.story_progress[story_id].iteration = 0,
                     !.story_progress[story_id].error = <<>>,
                     !.story_progress[story_id].criteria_status =
                        [i \in 1..Len(@) |-> FALSE]]
            IN /\ prd_session' =
                    IF reset.status = "failed"
                      THEN [reset EXCEPT !.status = "running"] ELSE reset
               /\ retrying' = retrying + 1
               /\ UNCHANGED <<ops, lastCall>>
       ELSE /\ ops' = ops + 1
            /\ lastCall' = [op |-> "retry", ok |-> FALSE]
            /\ UNCHANGED <<prd_session, retrying>>
  /\ UNCHANGED <<ralph, wloop, cancel_channels, cancelling>>

\* retry_prd_story after retry_story: get_session, the main loop is spawned
\* anew when the session is running, and the command returns.
RetryRespawn ==
  /\ retrying > 0
  /\ retrying' = retrying - 1
  /\ ops' = ops + 1
  /\ ralph' = IF prd_session.status = "running"
                THEN [ralph EXCEPT !.spawned = @ + 1] ELSE ralph
  /\ lastCall' = [op |-> "retry", ok |-> TRUE]
  /\ UNCHANGED <<prd_session, wloop, cancel_channels, cancelling>>

DriverNext ==
  \/ LoopStart /\ DriverFrame
  \/ LoopTurn /\ DriverFrame
  \/ LoopAssign /\ DriverFrame
  \/ LoopCheck /\ DriverFrame
  \/ LoopComplete /\ DriverFrame
  \/ \E w \in Elements(PoolWorkers) : WorkerStart(w) /\ DriverFrame
  \/ \E w \in Elements(PoolWorkers), ok \in BOOLEAN :
       WorkerSpawn(w, ok) /\ DriverFrame
  \/ \E w \in Elements(PoolWorkers), ok \in BOOLEAN :
       WorkerInitialize(w, ok) /\ DriverFrame
  \/ \E w \in Elements(PoolWorkers), ok \in BOOLEAN :
       WorkerCreateSession(w, ok) /\ DriverFrame
  \/ \E w \in Elements(PoolWorkers) : WorkerIterate(w) /\ DriverFrame
  \/ \E w \in Elements(PoolWorkers), ok \in BOOLEAN :
       WorkerPromptDone(w, ok) /\ DriverFrame
  \/ \E w \in Elements(PoolWorkers) : WorkerPromptCancelled(w) /\ DriverFrame
  \/ \E w \in Elements(PoolWorkers),
        statuses \in [1..1 -> BOOLEAN] \cup [1..2 -> BOOLEAN] :
       WorkerVerify(w, statuses) /\ DriverFrame
  \/ \E w \in Elements(PoolWorkers) : WorkerComplete(w) /\ DriverFrame
  \/ \E w \in Elements(PoolWorkers) : WorkerCheckRunning(w) /\ DriverFrame
  \/ \E w \in Elements(PoolWorkers) : WorkerReturns(w) /\ DriverFrame
  \/ \E w \in Elements(PoolWorkers) : EarlierLoopReturns(w) /\ DriverFrame
  \/ Pause /\ DriverFrame
  \/ Resume /\ DriverFrame
  \/ CancelSignal /\ DriverFrame
  \/ CancelMark /\ DriverFrame
  \/ \E id \in {"a", "b"} : RetryStory(id) /\ DriverFrame
  \/ RetryRespawn /\ DriverFrame

\* C17: a story becomes completed only in the step of a worker loop that
\* directly follows a verifier run of that story in which every criterion
\* passed, and that step does complete it; a verifier run with a failed
\* criterion does not complete the story and pushes one guardrail per
\* failed criterion; and after such a run the loop goes on to the next
\* iteration when it has one left: its next steps are the head of the for
\* loop and the next prompt.
VerifierDecidesAndLoopGoesOn ==
  [][/\ \A w \in Elements(PoolWorkers) :
          wloop[w].pc = "verify" /\ wloop'[w].pc # "verify" =>
            LET id == wloop[w].story_id
                statuses == prd_session'.story_progress[id].criteria_status
                failing == {i \in 1..Len(statuses) : ~statuses[i]}
            IN IF failing = {}
                 THEN wloop'[w].pc = "complete"
                 ELSE /\ prd_session'.story_progress[id].status # "completed"
                      /\ wloop'[w].pc # "complete"
                      /\ Len(wloop'[w].guardrails) =
                           Len(wloop[w].guardrails) + Cardinality(failing)
                      /\ \A i \in failing :
                           \E k \in Len(wloop[w].guardrails) + 1
                                      ..Len(wloop'[w].guardrails) :
                             wloop'[w].guardrails[k] =
                               <<"Criterion", DigitChar[i]>>
     /\ \A w \in Elements(PoolWorkers) :
          wloop[w].pc = "complete" /\ wloop'[w].pc # "complete" =>
            prd_session'.story_progress[wloop[w].story_id].status
              = "completed"
     /\ \A w \in Elements(PoolWorkers) :
          (/\ wloop[w].pc = "check_running"
           /\ wloop'[w].pc # "check_running"
           /\ IterationsLeft(
                wloop[w].iteration,
                prd_session.prd.constraints.max_iterations_per_story))
          => wloop'[w].pc = "iterate"
     /\ \A w \in Elements(PoolWorkers) :
          (/\ wloop[w].pc = "iterate"
           /\ wloop'[w].pc # "iterate"
           /\ IterationsLeft(
                wloop[w].iteration,
                prd_session.prd.constraints.max_iterations_per_story))
          => /\ wloop'[w].pc = "prompting"
             /\ wloop'[w].iteration = wloop[w].iteration + 1
     /\ \A id \in DOMAIN prd_session.story_progress :
          (prd_session.story_progress[id].status # "completed"
             /\ prd_session'.story_progress[id].status = "completed")
          => \E w \in Elements(PoolWorkers) :
               /\ wloop[w].pc = "complete"
               /\ wloop[w].story_id = id
               /\ \A i \in 1..Len(prd_session.story_progress[id]
                                    .criteria_status) :
                    prd_session.story_progress[id].criteria_status[i]]_vars

\* C18: the session is never completed while a story is not; the step that
\* completes the last story completes the session; the session becomes
\* completed only in a state where every story is completed; and the step
\* in which a story fails sets the session to failed.
SessionStatusFollowsStories ==
  /\ [](prd_session.status = "completed" =>
          \A id \in DOMAIN prd_session.story_progress :
            prd_session.story_progress[id].status = "completed")
  /\ [][LET P == prd_session.story_progress
            Q == prd_session'.story_progress
        IN /\ (\E id \in DOMAIN P : P[id].status # "completed")
                /\ (\A id \in DOMAIN Q : Q[id].status = "completed")
              => prd_session'.status = "completed"
           /\ (\E id \in DOMAIN P :
                 P[id].status # "failed" /\ Q[id].status = "failed")
              => prd_session'.status = "failed"]_vars

\* C18 witness: the session is completed, both stories worked on, story a
\* only at its second iteration.
SessionCompleted ==
  /\ prd_session.status = "completed"
  /\ prd_session.story_progress["a"].iteration = 2
  /\ prd_session.story_progress["b"].iteration >= 1
  /\ \A id \in {"a", "b"} :
       prd_session.story_progress[id].status = "completed"

\* C19: a worker loop calls client.prompt at most max_iterations_per_story
\* times, the iteration count of a story's progress never exceeds it, and a
\* story whose worker loop is over after a last iteration that did not pass
\* is failed with the error "Max iterations reached".
IterationsBoundedAndFailed ==
  \A w \in Elements(PoolWorkers) :
    LET max == prd_session.prd.constraints.max_iterations_per_story
        over == IF wloop[w].pc = "returning"
                  THEN wloop[w].leaving ELSE wloop[w].pc
    IN /\ wloop[w].prompts <= max
       /\ \A id \in DOMAIN prd_session.story_progress :
            prd_session.story_progress[id].iteration <= max
       /\ (/\ over \in {"exhausted", "stopped"}
           /\ wloop[w].iteration = max
           /\ prd_session.story_progress[wloop[w].story_id].worker_id = w
           /\ prd_session.story_progress[wloop[w].story_id].iteration = max)
          => /\ prd_session.story_progress[wloop[w].story_id].status
                  = "failed"
             /\ prd_session.story_progress[wloop[w].story_id].error
                  = <<"Max iterations reached">>

\* C20: pause is accepted exactly when the session is running and resume
\* exactly when it is paused, a rejected call changes nothing, an accepted
\* pause leaves the session paused and an accepted resume running; and a
\* resumed session goes on to completion unless a story fails or the
\* session is paused or cancelled again.
PauseResumeContinues ==
  /\ [][ops' = ops + 1 /\ lastCall'.op \in {"pause", "resume"} =>
          /\ lastCall'.ok <=>
               prd_session.status =
                 (IF lastCall'.op = "pause" THEN "running" ELSE "paused")
          /\ lastCall'.ok =>
               prd_session'.status =
                 (IF lastCall'.op = "pause" THEN "paused" ELSE "running")
          /\ ~lastCall'.ok =>
               UNCHANGED <<prd_session, ralph, wloop, cancel_channels>>]_vars
  /\ (lastCall = [op |-> "resume", ok |-> TRUE]
        /\ prd_session.status = "running")
       ~> (prd_session.status # "running" \/ any_story_failed(prd_session))

\* No main loop is spawned or looping and every worker loop has returned.
AllLoopsStopped ==
  /\ ralph = NoMainLoop
  /\ \A w \in Elements(PoolWorkers) :
       /\ wloop[w].pc \in {"none"} \cup ReturnedPcs
       /\ wloop[w].earlier = 0

\* C21: a cancel signals, in its first lock section, the channel of every
\* registered worker loop of the session and of no other session; in its
\* second it marks the working workers error with `Session cancelled`,
\* leaves the others alone and sets the session failed; and as long as no
\* other call follows the cancel the session does not run again and its
\* main loops and worker loops eventually have all stopped.
CancelStopsSession ==
  /\ [][cancelling' = cancelling + 1 =>
          /\ \A k \in DOMAIN cancel_channels :
               cancel_channels'[k] =
                 IF StartsWith(k, SessionId) /\ cancel_channels[k] = "empty"
                   THEN "message" ELSE cancel_channels[k]
          /\ prd_session' = prd_session]_vars
  /\ [][cancelling' = cancelling - 1 =>
          /\ lastCall' = [op |-> "cancel", ok |-> TRUE]
          /\ cancel_channels' = cancel_channels
          /\ prd_session'.status = "failed"
          /\ \A i \in 1..Len(prd_session.workers) :
               prd_session'.workers[i] =
                 IF prd_session.workers[i].status = "working"
                   THEN [prd_session.workers[i] EXCEPT
                           !.status = "error",
                           !.error = <<"Session cancelled">>]
                   ELSE prd_session.workers[i]]_vars
  /\ [][lastCall.op = "cancel" /\ lastCall'.op = "cancel" =>
          prd_session'.status # "running"]_vars
  /\ (lastCall.op = "cancel")
       ~> (AllLoopsStopped \/ lastCall.op # "cancel")

\* C22: a story becomes in progress only from pending, with every one of
\* its dependencies completed, on a worker that was idle; no two working
\* workers hold the same story, no two running worker loops work on the
\* same story, no worker is recorded on two stories in progress, and a
\* story that has left pending has all its dependencies completed.  A
\* worker loop is running on its story until the step that completes or
\* fails the story or finds the session not running.
AssignmentIsExclusive ==
  /\ [](LET P == prd_session.story_progress
            W == prd_session.workers
            Running(w) == wloop[w].pc \in {"start", "spawn", "initialize",
                                          "create_session", "iterate",
                                          "prompting", "verify", "complete",
                                          "check_running"}
        IN /\ \A i, j \in 1..Len(W) :
                (/\ i # j
                 /\ W[i].status = "working"
                 /\ W[j].status = "working")
                => W[i].current_story_id # W[j].current_story_id
           /\ \A v, w \in Elements(PoolWorkers) :
                v # w /\ Running(v) /\ Running(w)
                => wloop[v].story_id # wloop[w].story_id
           /\ \A a, b \in DOMAIN P :
                (/\ a # b
                 /\ P[a].status = "in_progress"
                 /\ P[b].status = "in_progress")
                => P[a].worker_id # P[b].worker_id
           /\ \A i \in 1..Len(prd_session.prd.stories) :
                P[prd_session.prd.stories[i].id].status # "pending"
                => \A d \in Elements(prd_session.prd.stories[i].dependencies) :
                     P[d].status = "completed")
  /\ [][\A i \in 1..Len(prd_session.prd.stories) :
          LET st == prd_session.prd.stories[i]
              P == prd_session.story_progress
              Q == prd_session'.story_progress
          IN P[st.id].status # "in_progress"
               /\ Q[st.id].status = "in_progress"
             => /\ P[st.id].status = "pending"
                /\ \A d \in Elements(st.dependencies) :
                     P[d].status = "completed"
                /\ \E k \in 1..Len(prd_session.workers) :
                     /\ prd_session.workers[k].id = Q[st.id].worker_id
                     /\ prd_session.workers[k].status = "idle"
                     /\ prd_session'.workers[k].status = "working"
                     /\ prd_session'.workers[k].current_story_id = st.id]_vars

\* C22 witness: with two workers and b depending on a, story a is
\* completed and story b in progress, its worker loop prompting.
DependentStoryStarted ==
  /\ Len(prd_session.workers) = 2
  /\ prd_session.prd.stories[2].dependencies = <<"a">>
  /\ prd_session.story_progress["a"].status = "completed"
  /\ prd_session.story_progress["b"].status = "in_progress"
  /\ \E w \in Elements(PoolWorkers) :
       wloop[w].story_id = "b" /\ wloop[w].pc = "prompting"

\* C39: after retry_prd_story has succeeded (the story is pending again
\* with iteration 0, the session runs and a main loop has been spawned), the
\* story is eventually assigned to a worker again.
RetriedStoryIsAssigned ==
  \A id \in {"a", "b"} :
    (/\ lastCall = [op |-> "retry", ok |-> TRUE]
     /\ ralph.spawned > 0
     /\ prd_session.status = "running"
     /\ prd_session.story_progress[id].status = "pending"
     /\ prd_session.story_progress[id].iteration = 0
     /\ \E i \in ReadyStories(prd_session) : prd_session.prd.stories[i].id = id)
      ~> (prd_session.story_progress[id].status # "pending")

\* C40: while cancel_prd_session is the operator's last call and the session
\* has the status the cancel gave it, no step of a worker loop changes the
\* status of the session.
WorkerLoopsKeepCancelledStatus ==
  [][/\ lastCall.op = "cancel"
     /\ lastCall' = lastCall
     /\ prd_session.status = "failed"
     /\ wloop' # wloop
     /\ ralph' = ralph
     => prd_session'.status = prd_session.status]_vars

\* ====================================================== orchestrator session
\* orchestrator/session.rs (OrchestratorSession), orchestrator/manager.rs
\* (OrchestratorManager, execute_worker), orchestrator/commands.rs and
\* create_acp_session of acp/commands.rs.  One session; its workers are
\* named by their position in session.workers.

\* No session has been created.
NoSession == [status |-> None, workers |-> <<>>]

\* OrchestratorSession::new
NewOrchSession == [status |-> "planning", workers |-> <<>>]

\* WorkerSession::new
NewOrchWorker == [status |-> "pending", error_message |-> FALSE]

OrchInit ==
  /\ orch = NoSession
  /\ creating = "idle"
  /\ exec = <<>>
  /\ active_workers = {}
  /\ cancel_sent = {}

\* OrchestratorSession::add_worker, n times
RECURSIVE AddWorkers(_, _)
AddWorkers(session, n) ==
  IF n = 0 THEN session
  ELSE AddWorkers([session EXCEPT !.workers = Append(@, NewOrchWorker)],
                  n - 1)

\* create_orchestrator_session / create_acp_session up to the creation of
\* the session in status planning.
OrchCreate(kind) ==
  /\ creating = "idle"
  /\ orch' = NewOrchSession
  /\ creating' = kind
  /\ UNCHANGED <<exec, active_workers, cancel_sent>>

\* create_orchestrator_session: ClaudeClient::from_env or plan_subtasks
\* returned an error; the command returns it.
OrchPlanFails ==
  /\ creating = "plan"
  /\ creating' = "failed"
  /\ UNCHANGED <<orch, exec, active_workers, cancel_sent>>

\* create_orchestrator_session after plan_subtasks returned n subtasks, its
\* first lock section: a worker per subtask is added and the session set
\* running.  The workers are listed in the session; none has a cancel
\* sender or a task yet, and the command goes on to give them theirs one
\* by one.
OrchPlanned(n) ==
  /\ creating = "plan"
  /\ creating' = IF n = 0 THEN "done" ELSE "registering"
  /\ orch' = [AddWorkers(orch, n) EXCEPT !.status = "running"]
  /\ exec' = [i \in 1..n |-> "listed"]
  /\ UNCHANGED <<active_workers, cancel_sent>>

\* create_orchestrator_session, one turn of its loop over the workers: the
\* lock section that registers the cancel sender of the next listed
\* worker, and the spawn of its task.  After the last worker the command
\* reads the session and returns it.
OrchRegister(i) ==
  /\ creating = "registering"
  /\ i \in DOMAIN exec
  /\ exec[i] = "listed"
  /\ \A j \in 1..(i - 1) : exec[j] # "listed"
  /\ exec' = [exec EXCEPT ![i] = "spawned"]
  /\ active_workers' = active_workers \cup {i}
  /\ creating' = IF \E j \in DOMAIN exec : j > i /\ exec[j] = "listed"
                   THEN "registering" ELSE "done"
  /\ UNCHANGED <<orch, cancel_sent>>

\* create_acp_session: the single worker is added and the session set
\* running; the worker is run by its supervisor.
OrchAcpWorker ==
  /\ creating = "acp"
  /\ creating' = "done"
  /\ orch' = [AddWorkers(orch, 1) EXCEPT !.status = "running"]
  /\ exec' = <<"supervised">>
  /\ UNCHANGED <<active_workers, cancel_sent>>

\* execute_worker, its start: the worker is set running.
ExecStart(i) ==
  /\ i \in DOMAIN exec
  /\ exec[i] = "spawned"
  /\ exec' = [exec EXCEPT ![i] = "streaming"]
  /\ orch' = update_worker_status(orch, i, "running")
  /\ UNCHANGED <<creating, active_workers, cancel_sent>>

\* execute_worker: stream_message returned Ok.
ExecCompleted(i) ==
  /\ i \in DOMAIN exec
  /\ exec[i] = "streaming"
  /\ exec' = [exec EXCEPT ![i] = "done"]
  /\ orch' = update_worker_status(orch, i, "completed")
  /\ active_workers' = active_workers \ {i}
  /\ UNCHANGED <<creating, cancel_sent>>

\* execute_worker: stream_message returned an error; mark_failed sets the
\* worker's status without recalculating the session's.
ExecFailed(i) ==
  /\ i \in DOMAIN exec
  /\ exec[i] = "streaming"
  /\ exec' = [exec EXCEPT ![i] = "done"]
  /\ orch' = [orch EXCEPT !.workers[i].status = "failed",
                          !.workers[i].error_message = TRUE]
  /\ active_workers' = active_workers \ {i}
  /\ UNCHANGED <<creating, cancel_sent>>

\* execute_worker: the cancel branch of the select.
ExecCancelled(i) ==
  /\ i \in DOMAIN exec
  /\ exec[i] = "streaming"
  /\ i \in cancel_sent
  /\ exec' = [exec EXCEPT ![i] = "done"]
  /\ orch' = update_worker_status(orch, i, "cancelled")
  /\ active_workers' = active_workers \ {i}
  /\ UNCHANGED <<creating, cancel_sent>>

\* cancel_worker (orchestrator/commands.rs): a registered worker's sender
\* is removed and signalled and the worker set cancelled; otherwise the
\* command fails and changes nothing.
OrchCancelWorker(i) ==
  /\ i \in 1..Len(orch.workers)
  /\ IF i \in active_workers
       THEN /\ active_workers' = active_workers \ {i}
            /\ cancel_sent' = cancel_sent \cup {i}
            /\ orch' = update_worker_status(orch, i, "cancelled")
       ELSE UNCHANGED <<orch, active_workers, cancel_sent>>
  /\ UNCHANGED <<creating, exec>>

\* retry_worker, its first lock section: a failed or cancelled worker gets
\* a successor, which is added to the session.  The successor is listed
\* without a cancel sender and without a task while the command builds
\* its client.
RetryWorker(i) ==
  /\ i \in 1..Len(orch.workers)
  /\ Len(orch.workers) < MaxOrchWorkers
  /\ orch.workers[i].status \in {"failed", "cancelled"}
  /\ orch' = AddWorkers(orch, 1)
  /\ exec' = Append(exec, "retrying")
  /\ UNCHANGED <<creating, active_workers, cancel_sent>>

\* retry_worker after its first lock section.  ClaudeClient::from_env
\* failed: the command returns the error and the successor stays listed
\* with no task.  Otherwise the successor's cancel sender is registered in
\* a second lock section and its task spawned.
RetryRegister(j, ok) ==
  /\ j \in DOMAIN exec
  /\ exec[j] = "retrying"
  /\ exec' = [exec EXCEPT ![j] = IF ok THEN "spawned" ELSE "none"]
  /\ active_workers' = IF ok THEN active_workers \cup {j} ELSE active_workers
  /\ UNCHANGED <<orch, creating, cancel_sent>>

OrchNext ==
  \/ \E kind \in {"plan", "acp"} : OrchCreate(kind) /\ OrchFrame
  \/ OrchPlanFails /\ OrchFrame
  \/ \E n \in 0..MaxSubtasks : OrchPlanned(n) /\ OrchFrame
  \/ \E i \in 1..MaxOrchWorkers : OrchRegister(i) /\ OrchFrame
  \/ OrchAcpWorker /\ OrchFrame
  \/ \E i \in 1..MaxOrchWorkers : ExecStart(i) /\ OrchFrame
  \/ \E i \in 1..MaxOrchWorkers : ExecCompleted(i) /\ OrchFrame
  \/ \E i \in 1..MaxOrchWorkers : ExecFailed(i) /\ OrchFrame
  \/ \E i \in 1..MaxOrchWorkers : ExecCancelled(i) /\ OrchFrame
  \/ \E i \in 1..MaxOrchWorkers : OrchCancelWorker(i) /\ OrchFrame
  \/ \E i \in 1..MaxOrchWorkers : RetryWorker(i) /\ OrchFrame
  \/ \E j \in 1..MaxOrchWorkers, ok \in BOOLEAN :
       RetryRegister(j, ok) /\ OrchFrame

\* C23: every session whose status is not planning has at least one
\* worker.
RunningSessionHasWorker ==
  orch # NoSession /\ orch.status # "planning" => Len(orch.workers) >= 1

\* ========================================================= specifications
Init ==
  /\ TaskInit /\ TermInit /\ SupInit /\ PermInit /\ InboxInit /\ ParserInit
  /\ DriverInit /\ OrchInit /\ FsInit /\ SwarmInit /\ StoreInit
  /\ reconnects = NoCalls
  /\ displaced = <<>>
  /\ owner = 0
  /\ orphans = {}
  /\ client_dropped = FALSE

\* The PRD the other components start with: no story.
NoPrd == [stories |-> <<>>,
          constraints |-> [max_workers |-> 1, max_iterations_per_story |-> 1]]

\* The session the other components start with.
OnePrd == prd_session = NewSession(DriverPrd(OneCriterion, <<>>, 2, 1))

\* The file and the command line the other components start with.
OneFile == file = <<>> /\ swarm_line = <<"l", "s">>

\* Each specification runs one component; the others stay in one fixed
\* initial state.
InitTasks == OneFile /\ prd = NoPrd /\ OnePrd /\ Init /\ coordination /\ mode = "new" /\ agent.id = "claude"

\* The connection of a supervisor that create_acp_session started for
\* claude, at the await of its initial prompt: the worker is registered
\* with the InboxManager, initialize and newSession were answered and the
\* prompt request is out.
InitTerm ==
  /\ OneFile /\ prd = NoPrd /\ OnePrd
  /\ TaskInit /\ TermInit /\ PermInit /\ ParserInit /\ DriverInit
  /\ OrchInit /\ FsInit /\ SwarmInit /\ StoreInit
  /\ reconnects = NoCalls
  /\ displaced = <<>>
  /\ owner = 0
  /\ orphans = {}
  /\ client_dropped = FALSE
  /\ coordination
  /\ inbox_calls = [k \in CallSlots |-> NoBroadcast]
  /\ inboxes = EntryOrInsert(<< >>, TermWorker)
  /\ inbox_workers = <<TermWorker>>
  /\ next_msg = 1
  /\ clock = 0
  /\ lastInbox = InboxOp("register_worker", TermWorker, <<>>)
  /\ mode = "new"
  /\ agent = [id |-> "claude", name |-> "Claude Code"]
  /\ wire = <<Request("initialize", "ok"), Request("newSession", "ok"),
              Request("prompt", "sent")>>
  /\ conn = [auth_methods |-> FALSE, is_authenticated |-> TRUE,
             load_session |-> FALSE, image |-> FALSE,
             acp_session_id |-> TRUE]
  /\ worker_error = None
  /\ failedEvents = <<>>
  /\ pc = "prompting"
  /\ mailbox = <<>>
  /\ mailboxOpen = TRUE
  /\ next_cmd = 1
  /\ serving = InitialPrompt
  /\ requests = {NoId}
  /\ answer = None
  /\ cancel_tx = TRUE
  /\ cancel_rx = "empty"
  /\ process = "running"
  /\ killed = FALSE
  /\ status = "running"
  /\ session_status = "running"
  /\ started = <<>>
  /\ replied = {}
  /\ accepted = 0
  /\ acpCancels = 0
  /\ cancelledEvents = 0
  /\ done_rx = [i \in 1..MaxCommands |-> NoReply]
  /\ enqueuing = [k \in PromptKinds |-> 0]
  /\ prompt_content = ContentBlocks("Prompt")
InitSup == OneFile /\ prd = NoPrd /\ OnePrd /\ Init /\ coordination

\* The task store driven by the task commands and the swarm task update.
SpecTasks == InitTasks /\ [][TaskNext]_vars

\* The createTerminal requests of one connection while its supervisor
\* awaits the prompt.
SpecTerm == InitTerm /\ [][TermNext]_vars

\* The terminals of one connection, their children and the requests about
\* them.
SpecTermIo == InitTerm /\ [][TermIoNext]_vars
SpecTermExit == InitTerm /\ [][TermExitNext]_vars
InitTermInbox == InitTerm /\ coordination
SpecTermInbox == InitTermInbox /\ [][TermInboxNext]_vars

\* One supervisor with its operator and its agent.
SpecSup == InitSup /\ [][SupNext]_vars

\* The permission requests of the connections, their operator and the
\* 300 s timer; a waiting call is eventually polled and its timer runs.
InitPerm == OneFile /\ prd = NoPrd /\ OnePrd /\ Init /\ coordination /\ mode = "new" /\ agent.id = "claude"
SpecPerm ==
  /\ InitPerm
  /\ [][PermNext]_vars
  /\ \A r \in 1..MaxRequests :
       /\ WF_vars(Resolve(r) /\ PermFrame)
       /\ WF_vars(Elapsed(r) /\ PermFrame)
       /\ WF_vars(DropReceiver(r) /\ PermFrame)
       /\ WF_vars(Timeout(r) /\ PermFrame)

\* The inbox driven by every operation of the InboxManager.
InitInbox == OneFile /\ prd = NoPrd /\ OnePrd /\ Init /\ coordination /\ mode = "new" /\ agent.id = "claude"
SpecInbox == InitInbox /\ [][InboxNext]_vars

\* validate_prd applied to every PRD of PrdInputs.
InitParser ==
  OneFile /\ OnePrd /\ Init /\ coordination /\ mode = "new" /\ agent.id = "claude"
SpecParser == InitParser /\ [][ParserNext]_vars

\* The PRD driver: the main loops, the worker loops and the operator's
\* pause, resume, cancel and retry.
InitDriver ==
  OneFile /\ prd = NoPrd /\ Init /\ coordination /\ mode = "new" /\ agent.id = "claude"
SpecDriver == InitDriver /\ [][DriverNext]_vars

\* An orchestrator session: its creation, its worker tasks, cancel_worker
\* and retry_worker.
InitOrch ==
  OneFile /\ prd = NoPrd /\ OnePrd /\ Init /\ coordination /\ mode = "new"
    /\ agent.id = "claude"
SpecOrch == InitOrch /\ [][OrchNext]_vars

\* read_text_file applied to every file of FileContents.
InitFs ==
  swarm_line = <<"l", "s">> /\ prd = NoPrd /\ OnePrd /\ Init /\ coordination
    /\ mode = "new" /\ agent.id = "claude"
SpecFs == InitFs /\ [][FsNext]_vars

\* The swarm parser applied to every line of SwarmLines.
InitSwarm ==
  file = <<>> /\ prd = NoPrd /\ OnePrd /\ Init /\ coordination
    /\ mode = "new" /\ agent.id = "claude"
SpecSwarm == InitSwarm /\ [][SwarmNext]_vars

\* One session that has no handle in worker_handles and no supervisor: the
\* session create_orchestrator_session has made, whose worker has
\* completed; reconnect_worker is among the operator's commands and the
\* agent is opencode.
InitReconnect ==
  /\ OneFile /\ prd = NoPrd /\ OnePrd
  /\ TaskInit /\ TermInit /\ PermInit /\ InboxInit /\ ParserInit
  /\ DriverInit /\ OrchInit /\ FsInit /\ SwarmInit /\ StoreInit
  /\ coordination
  /\ orphans = {}
  /\ reconnects = NoCalls
  /\ displaced = <<>>
  /\ agent \in Agents /\ agent.id = "opencode"
  /\ status = "completed"
  /\ session_status = "completed"
  /\ worker_error = None
  /\ failedEvents = <<>>
  /\ cancel_tx = FALSE
  /\ accepted = 0
  /\ acpCancels = 0
  /\ cancelledEvents = 0
  /\ mode = "reconnect"
  /\ pc = "exited"
  /\ mailbox = <<>>
  /\ mailboxOpen = FALSE
  /\ next_cmd = 1
  /\ done_rx = [i \in 1..MaxCommands |-> NoReply]
  /\ enqueuing = [k \in PromptKinds |-> 0]
  /\ serving = NoCmd
  /\ requests = {}
  /\ answer = None
  /\ cancel_rx = None
  /\ process = None
  /\ killed = FALSE
  /\ started = <<>>
  /\ replied = {}
  /\ wire = <<>>
  /\ conn = NewConnection
  /\ prompt_content = <<>>
  /\ client_dropped = FALSE
  /\ owner = 0
SpecReconnect == InitReconnect /\ [][ReconnectNext]_vars

\* The session files under save and delete while the clock runs.
InitStore ==
  OneFile /\ prd = NoPrd /\ OnePrd /\ Init /\ coordination /\ mode = "new"
    /\ agent.id = "claude"
SpecStore == InitStore /\ [][StoreNext]_vars

\* The main loop and the worker loops are tokio tasks and threads that are
\* always scheduled again, and the agent answers every prompt; the
\* operator's calls may or may not come, and a call that has been made runs
\* to its end.
DriverFairness ==
  /\ WF_vars(LoopStart /\ DriverFrame)
  /\ WF_vars(LoopTurn /\ DriverFrame)
  /\ WF_vars(LoopAssign /\ DriverFrame)
  /\ WF_vars(LoopCheck /\ DriverFrame)
  /\ WF_vars(LoopComplete /\ DriverFrame)
  /\ \A w \in Elements(PoolWorkers) :
       WF_vars(/\ \/ WorkerStart(w)
                  \/ \E ok \in BOOLEAN : WorkerSpawn(w, ok)
                  \/ \E ok \in BOOLEAN : WorkerInitialize(w, ok)
                  \/ \E ok \in BOOLEAN : WorkerCreateSession(w, ok)
                  \/ WorkerIterate(w)
                  \/ \E ok \in BOOLEAN : WorkerPromptDone(w, ok)
                  \/ WorkerPromptCancelled(w)
                  \/ \E statuses \in [1..2 -> BOOLEAN] \cup [1..1 -> BOOLEAN] :
                       WorkerVerify(w, statuses)
                  \/ WorkerComplete(w)
                  \/ WorkerCheckRunning(w)
                  \/ WorkerReturns(w)
                  \/ EarlierLoopReturns(w)
               /\ DriverFrame)
  /\ WF_vars(CancelMark /\ DriverFrame)
  /\ WF_vars(RetryRespawn /\ DriverFrame)

\* The driver with one worker and story b depending on story a.
InitDriverFair ==
  /\ prd = NoPrd
  /\ prd_session = NewSession(DriverPrd(TwoCriteria, <<"a">>, 1, MaxIterations))
  /\ InitDriver

SpecDriverFair == InitDriverFair /\ [][DriverNext]_vars /\ DriverFairness

====
